---- MODULE Spec2Model ----
(***************************************************************************)
(* Favorites store: StateStore + ObserverManager + CommandManager +        *)
(* ActionDefinitions, composed by the createFavoritesStore facade.         *)
(*                                                                         *)
(* Spec    : one facade instance, its operations run one at a time, with   *)
(*           subscribers that only read the snapshot they are given.       *)
(* SpecObs : the same facade with subscribers that throw or mutate the     *)
(*           snapshot they are given.                                      *)
(* SpecCM  : one CommandManager driven directly with caller-made commands  *)
(*           whose execute()/undo() may return true/false or throw.        *)
(* SpecRemote : the facade together with the remote favorites table, the   *)
(*           remote service answering, refusing or rejecting each call.    *)
(* SpecStore : one StateStore driven directly, its caller keeping and      *)
(*           mutating the Sets that clear() and getAll() return.           *)
(* SpecCMRace : one CommandManager whose asynchronous executeAction, undo   *)
(*           and redo calls overlap: each call is split at its await.      *)
(* SpecRace : the facade with overlapping addFavorite, removeFavorite and  *)
(*           clearAll calls, each split at its awaits.                     *)
(* SpecPass : one ObserverManager with callbacks that subscribe and        *)
(*           unsubscribe while they are being notified.                    *)
(* SpecInput : the facade and its state store called with any value,       *)
(*           among them the ones the validation rejects.                   *)
(***************************************************************************)
EXTENDS Integers, Sequences, FiniteSets, Bags, TLC

\* ------------------------------------------------------------------ bounds
MaxHistory == 2
MaxObsHistory == 1
MaxSubscribers == 2

MaxRemoteHistory == 2
MaxRaceHistory == 2
MaxCalls == 2
MaxPassSubscribers == 3
MaxInputHistory == 1

\* Favorite URLs the callers use, and the URL a snapshot-mutating client adds.
Urls == {"m1", "m2"}
HackerUrl == "hacker"

\* Subscriber callbacks: "ok" reads the snapshot it is given, "bad" throws,
\* "mutator" adds HackerUrl to the Set it is given.
Callbacks == {"ok", "bad", "mutator"}
WellBehaved == {"ok"}

\* Callbacks that hold the ObserverManager: "adder" subscribes the callback
\* "late" when it is invoked, "remover" unsubscribes the callback "ok".
PassCallbacks == {"ok", "adder", "remover", "late"}

\* Values a caller passes where a URL is expected although they are not
\* strings (the number 42, null, the array ['m1']), and where a callback is
\* expected although they are not functions (null, the string 'm1').
NotStrings == {"<42>", "<null>", "<['m1']>"}
NotFunctions == {"<null>", "m1"}

\* typeof v, and whether v?.length is truthy.
typeOf(v) ==
  IF v \in Callbacks \cup PassCallbacks THEN "function"
  ELSE IF v \in NotStrings THEN "object"
  ELSE "string"

hasLength(v) == v \notin {"", "<42>", "<null>"}

\* Caller-made commands of SpecCM.
CommandNames == {"A", "B"}

VARIABLES
  favorites,            \* StateStore: the private Set
  actionHistory,        \* CommandManager: executed commands
  currentHistoryIndex,  \* CommandManager: 0-based cursor, -1 when empty
  subscribers,          \* ObserverManager: callbacks in registration order
  last                  \* observation of the last completed call

vars == <<favorites, actionHistory, currentHistoryIndex, subscribers, last>>

\* A Set object is a reference plus its elements: "store" is the StateStore's
\* private Set, "copy" a Set allocated by new Set(...), "none" no object (null).
NoObject == [ref |-> "none", elems |-> {}]

\* The program state the operations work on. The remote favorites table is
\* shared with other sessions: d is its content when the call starts.
State(d) ==
  [favorites |-> favorites, db |-> d, actionHistory |-> actionHistory,
   currentHistoryIndex |-> currentHistoryIndex, subscribers |-> subscribers]

\* ------------------------------------------------------------- StateStore
\* add(url) and remove(url) throw before they touch the Set when url is not a
\* non-empty string (threw).
stateStore_add(f, url) ==
  LET wasAdded == url \notin f
  IN IF ~hasLength(url) \/ typeOf(url) # "string"
     THEN [favorites |-> f, ret |-> FALSE, threw |-> TRUE]
     ELSE [favorites |-> IF wasAdded THEN f \cup {url} ELSE f,
           ret |-> wasAdded, threw |-> FALSE]

stateStore_remove(f, url) ==
  IF ~hasLength(url) \/ typeOf(url) # "string"
  THEN [favorites |-> f, ret |-> FALSE, threw |-> TRUE]
  ELSE [favorites |-> f \ {url}, ret |-> url \in f, threw |-> FALSE]

stateStore_has(f, url) == url \in f

\* Variant: a getAll() that hands out the private Set itself.
stateStore_getAll_noCopy(f) == [ref |-> "store", elems |-> f]

stateStore_getAll(f) == [ref |-> "copy", elems |-> f]

stateStore_getCount(f) == Cardinality(f)

stateStore_isEmpty(f) == Cardinality(f) = 0

\* Variant: a clear() that returns the private Set it is about to empty.
stateStore_clear_noCopy(f) ==
  [favorites |-> {}, ret |-> [ref |-> "store", elems |-> f]]

stateStore_clear(f) ==
  [favorites |-> {}, ret |-> [ref |-> "copy", elems |-> f]]

\* snapshot instanceof Set: null and arrays are not.
AnArray == [ref |-> "array", elems |-> Urls]
isSet(snapshot) == snapshot.ref \in {"store", "copy"}

\* Variant: a restore that empties the Set before it looks at the snapshot.
stateStore_restore_clearsFirst(f, snapshot) ==
  IF ~isSet(snapshot) THEN [favorites |-> {}, threw |-> TRUE]
  ELSE [favorites |-> IF snapshot.ref = "store" THEN {} ELSE snapshot.elems,
        threw |-> FALSE]

\* restore throws before it touches the Set when the snapshot is not a Set.
\* favorites.clear() runs before snapshot.forEach: a snapshot that is the
\* private Set itself is empty by the time it is iterated.
stateStore_restore(f, snapshot) ==
  IF ~isSet(snapshot) THEN [favorites |-> f, threw |-> TRUE]
  ELSE [favorites |-> IF snapshot.ref = "store" THEN {} ELSE snapshot.elems,
        threw |-> FALSE]

\* ------------------------------------------------------- database-service
\* Each call either rejects (the fetch fails) or is served by the stored
\* procedure, which reports Success = 1 only when it changed the table.
Env == {[served |-> {}, clearServed |-> FALSE],
        [served |-> Urls, clearServed |-> TRUE]}

dbAddFavorite(d, url, env) ==
  IF url \notin env.served THEN [db |-> d, res |-> "reject"]
  ELSE [db |-> d \cup {url}, res |-> IF url \in d THEN "false" ELSE "true"]

dbRemoveFavorite(d, url, env) ==
  IF url \notin env.served THEN [db |-> d, res |-> "reject"]
  ELSE [db |-> d \ {url}, res |-> IF url \in d THEN "true" ELSE "false"]

dbClearAllFavorites(d, env) ==
  IF ~env.clearServed THEN [db |-> d, res |-> "reject"]
  ELSE [db |-> {}, res |-> IF d = {} THEN "false" ELSE "true"]

\* ------------------------------------------------------ action-definitions
\* url?.length && typeof url === 'string'
isNonEmptyString(url) == hasLength(url) /\ typeOf(url) = "string"

RECURSIVE filterValid(_)
filterValid(urls) ==
  IF urls = <<>> THEN <<>>
  ELSE (IF isNonEmptyString(Head(urls)) THEN <<Head(urls)>> ELSE <<>>)
       \o filterValid(Tail(urls))

\* A command is the object the factory returns together with the variables
\* its closure captured (addedUrls, previousState).
\* A factory that throws returns no command: Thrown stands for the Error.
Thrown ==
  [type |-> "Error", url |-> "", urls |-> <<>>, addedUrls |-> <<>>,
   previousState |-> NoObject]

createAddFavoriteAction(url) ==
  IF ~hasLength(url) \/ typeOf(url) # "string" THEN Thrown
  ELSE [type |-> "ADD_FAVORITE", url |-> url, urls |-> <<>>,
        addedUrls |-> <<>>, previousState |-> NoObject]

createRemoveFavoriteAction(url) ==
  IF ~hasLength(url) \/ typeOf(url) # "string" THEN Thrown
  ELSE [type |-> "REMOVE_FAVORITE", url |-> url, urls |-> <<>>,
        addedUrls |-> <<>>, previousState |-> NoObject]

createClearAllAction ==
  [type |-> "CLEAR_ALL", url |-> "", urls |-> <<>>, addedUrls |-> <<>>,
   previousState |-> NoObject]

\* Array.isArray(urls): a value that is not an array is written as a function
\* whose domain holds 0, which no array has as an index here.
NotArrays == {[k \in {0} |-> "<null>"], [k \in {0} |-> "m1"]}
isArray(urls) == 0 \notin DOMAIN urls

createBulkAddAction(urls) ==
  IF ~isArray(urls) THEN Thrown
  ELSE IF Len(urls) = 0 THEN Thrown
  ELSE IF Len(filterValid(urls)) = 0 THEN Thrown
  ELSE [type |-> "BULK_ADD", url |-> "", urls |-> filterValid(urls),
        addedUrls |-> <<>>, previousState |-> NoObject]

\* execute()/undo() of a command: the state after it, the command with its
\* closure variables after it, and what it returned ("true", "false",
\* "object" for a Set, "undefined", or "throw").
Bool(b) == IF b THEN "true" ELSE "false"

\* Variant: an execute() that lets a rejected remote call escape instead of
\* falling back to the local state.
AddFavorite_execute_noFallback(st, cmd, env) ==
  LET r == dbAddFavorite(st.db, cmd.url, env)
      a == stateStore_add(st.favorites, cmd.url)
      after == [st EXCEPT !.db = r.db, !.favorites = a.favorites]
  IN CASE r.res = "true"   -> [st |-> after, cmd |-> cmd, result |-> Bool(a.ret)]
       [] r.res = "false"  -> [st |-> after, cmd |-> cmd, result |-> Bool(a.ret)]
       [] r.res = "reject" -> [st |-> st, cmd |-> cmd, result |-> "throw"]

AddFavorite_execute(st, cmd, env) ==
  LET r == dbAddFavorite(st.db, cmd.url, env)
      a == stateStore_add(st.favorites, cmd.url)
      after == [st EXCEPT !.db = r.db, !.favorites = a.favorites]
  IN CASE r.res = "true"   -> [st |-> after, cmd |-> cmd, result |-> Bool(a.ret)]
       [] r.res = "false"  -> [st |-> after, cmd |-> cmd, result |-> Bool(a.ret)]
       [] r.res = "reject" -> [st |-> after, cmd |-> cmd, result |-> Bool(a.ret)]

\* Variant: an undo() that leaves the local state alone when the remote call
\* is rejected.
AddFavorite_undo_remoteOnly(st, cmd, env) ==
  LET r == dbRemoveFavorite(st.db, cmd.url, env)
      a == stateStore_remove(st.favorites, cmd.url)
      after == [st EXCEPT !.db = r.db, !.favorites = a.favorites]
  IN CASE r.res = "true"   -> [st |-> after, cmd |-> cmd, result |-> Bool(a.ret)]
       [] r.res = "false"  -> [st |-> after, cmd |-> cmd, result |-> Bool(a.ret)]
       [] r.res = "reject" -> [st |-> st, cmd |-> cmd, result |-> "false"]

AddFavorite_undo(st, cmd, env) ==
  LET r == dbRemoveFavorite(st.db, cmd.url, env)
      a == stateStore_remove(st.favorites, cmd.url)
      after == [st EXCEPT !.db = r.db, !.favorites = a.favorites]
  IN CASE r.res = "true"   -> [st |-> after, cmd |-> cmd, result |-> Bool(a.ret)]
       [] r.res = "false"  -> [st |-> after, cmd |-> cmd, result |-> Bool(a.ret)]
       [] r.res = "reject" -> [st |-> after, cmd |-> cmd, result |-> Bool(a.ret)]

RemoveFavorite_execute(st, cmd, env) ==
  LET r == dbRemoveFavorite(st.db, cmd.url, env)
      a == stateStore_remove(st.favorites, cmd.url)
      after == [st EXCEPT !.db = r.db, !.favorites = a.favorites]
  IN CASE r.res = "true"   -> [st |-> after, cmd |-> cmd, result |-> Bool(a.ret)]
       [] r.res = "false"  -> [st |-> after, cmd |-> cmd, result |-> Bool(a.ret)]
       [] r.res = "reject" -> [st |-> after, cmd |-> cmd, result |-> Bool(a.ret)]

RemoveFavorite_undo(st, cmd, env) ==
  LET r == dbAddFavorite(st.db, cmd.url, env)
      a == stateStore_add(st.favorites, cmd.url)
      after == [st EXCEPT !.db = r.db, !.favorites = a.favorites]
  IN CASE r.res = "true"   -> [st |-> after, cmd |-> cmd, result |-> Bool(a.ret)]
       [] r.res = "false"  -> [st |-> after, cmd |-> cmd, result |-> Bool(a.ret)]
       [] r.res = "reject" -> [st |-> after, cmd |-> cmd, result |-> Bool(a.ret)]

\* Variant: an execute() that takes its snapshot after it cleared the store.
ClearAll_execute_capturesLate(st, cmd, env) ==
  LET c == stateStore_clear(st.favorites)
      captured == [cmd EXCEPT !.previousState = stateStore_getAll(c.favorites)]
  IN [st |-> [st EXCEPT !.favorites = c.favorites], cmd |-> captured,
      result |-> "object"]

ClearAll_execute(st, cmd, env) ==
  LET captured == [cmd EXCEPT !.previousState = stateStore_getAll(st.favorites)]
      r == dbClearAllFavorites(st.db, env)
      c == stateStore_clear(st.favorites)
      after == [st EXCEPT !.db = r.db, !.favorites = c.favorites]
  IN CASE r.res = "true"   -> [st |-> after, cmd |-> captured, result |-> "object"]
       [] r.res = "false"  -> [st |-> after, cmd |-> captured, result |-> "object"]
       [] r.res = "reject" -> [st |-> after, cmd |-> captured, result |-> "object"]

RECURSIVE dbAddEach(_, _, _)
dbAddEach(d, urls, env) ==
  IF urls = <<>> THEN d
  ELSE dbAddEach(dbAddFavorite(d, Head(urls), env).db, Tail(urls), env)

RECURSIVE dbRemoveEach(_, _, _)
dbRemoveEach(d, urls, env) ==
  IF urls = <<>> THEN d
  ELSE dbRemoveEach(dbRemoveFavorite(d, Head(urls), env).db, Tail(urls), env)

\* previousState is a Set, and a Set has no map(): the first statement of the
\* try block throws a TypeError before any dbAddFavorite call is made, and the
\* catch block restores the local state only.
ClearAll_undo(st, cmd, env) ==
  IF cmd.previousState.ref # "none"
  THEN [st |-> [st EXCEPT !.favorites =
                 stateStore_restore(st.favorites, cmd.previousState).favorites],
        cmd |-> cmd, result |-> "true"]
  ELSE [st |-> st, cmd |-> cmd, result |-> "false"]

\* validUrls.forEach(url => { if (stateStore.add(url)) addedUrls.push(url) })
RECURSIVE addEach(_, _, _)
addEach(f, urls, added) ==
  IF urls = <<>> THEN [favorites |-> f, addedUrls |-> added]
  ELSE LET a == stateStore_add(f, Head(urls))
       IN addEach(a.favorites, Tail(urls),
                  IF a.ret THEN Append(added, Head(urls)) ELSE added)

\* addedUrls.forEach(url => { if (stateStore.remove(url)) removedCount++ })
RECURSIVE removeEach(_, _, _)
removeEach(f, urls, removedCount) ==
  IF urls = <<>> THEN [favorites |-> f, removedCount |-> removedCount]
  ELSE LET a == stateStore_remove(f, Head(urls))
       IN removeEach(a.favorites, Tail(urls),
                     IF a.ret THEN removedCount + 1 ELSE removedCount)

\* Variant: an execute() that reports success whatever it added.
BulkAdd_execute_alwaysTrue(st, cmd, env) ==
  LET a == addEach(st.favorites, cmd.urls, <<>>)
  IN [st |-> [st EXCEPT !.favorites = a.favorites],
      cmd |-> [cmd EXCEPT !.addedUrls = a.addedUrls], result |-> "true"]

\* Variant: an execute() that reports success only when every requested url
\* was added.
BulkAdd_execute_allOrNothing(st, cmd, env) ==
  LET a == addEach(st.favorites, cmd.urls, <<>>)
  IN [st |-> [st EXCEPT !.favorites = a.favorites],
      cmd |-> [cmd EXCEPT !.addedUrls = a.addedUrls],
      result |-> Bool(Len(a.addedUrls) = Len(cmd.urls))]

BulkAdd_execute(st, cmd, env) ==
  LET d == dbAddEach(st.db, cmd.urls, env)
      a == addEach(st.favorites, cmd.urls, <<>>)
  IN [st |-> [st EXCEPT !.db = d, !.favorites = a.favorites],
      cmd |-> [cmd EXCEPT !.addedUrls = a.addedUrls],
      result |-> Bool(Len(a.addedUrls) > 0)]

\* Variant: an undo that leaves the tracked list as it is.
BulkAdd_undo_keepsTracking(st, cmd, env) ==
  IF Len(cmd.addedUrls) = 0
  THEN [st |-> st, cmd |-> cmd, result |-> "false"]
  ELSE LET r == removeEach(st.favorites, cmd.addedUrls, 0)
       IN [st |-> [st EXCEPT !.favorites = r.favorites], cmd |-> cmd,
           result |-> Bool(r.removedCount > 0)]

\* Variant: an undo that removes every requested url instead of the urls this
\* command added; it differs from BulkAdd_undo when a requested url was already
\* a favorite.
BulkAdd_undo_removesRequested(st, cmd, env) ==
  IF Len(cmd.urls) = 0
  THEN [st |-> st, cmd |-> cmd, result |-> "false"]
  ELSE LET r == removeEach(st.favorites, cmd.urls, 0)
       IN [st |-> [st EXCEPT !.favorites = r.favorites],
           cmd |-> [cmd EXCEPT !.addedUrls = <<>>],
           result |-> Bool(r.removedCount > 0)]

BulkAdd_undo(st, cmd, env) ==
  IF Len(cmd.addedUrls) = 0
  THEN [st |-> st, cmd |-> cmd, result |-> "false"]
  ELSE LET d == dbRemoveEach(st.db, cmd.addedUrls, env)
           r == removeEach(st.favorites, cmd.addedUrls, 0)
       IN [st |-> [st EXCEPT !.db = d, !.favorites = r.favorites],
           cmd |-> [cmd EXCEPT !.addedUrls = <<>>],
           result |-> Bool(r.removedCount > 0)]

\* A caller-made command (SpecCM): execute()/undo() do what the caller wrote,
\* here the outcome the environment picks for this call.
Outcomes == {"true", "false", "undefined", "throw"}

Custom_execute(st, cmd, env) == [st |-> st, cmd |-> cmd, result |-> env.outcome]

Custom_undo(st, cmd, env) == [st |-> st, cmd |-> cmd, result |-> env.outcome]

hasExecute(cmd) == IF cmd.type = "CUSTOM" THEN cmd.hasExecute ELSE TRUE

hasUndo(cmd) == IF cmd.type = "CUSTOM" THEN cmd.hasUndo ELSE TRUE

action_execute(st, cmd, env) ==
  CASE cmd.type = "ADD_FAVORITE"    -> AddFavorite_execute(st, cmd, env)
    [] cmd.type = "REMOVE_FAVORITE" -> RemoveFavorite_execute(st, cmd, env)
    [] cmd.type = "CLEAR_ALL"       -> ClearAll_execute(st, cmd, env)
    [] cmd.type = "BULK_ADD"        -> BulkAdd_execute(st, cmd, env)
    [] cmd.type = "CUSTOM"          -> Custom_execute(st, cmd, env)

action_undo(st, cmd, env) ==
  CASE cmd.type = "ADD_FAVORITE"    -> AddFavorite_undo(st, cmd, env)
    [] cmd.type = "REMOVE_FAVORITE" -> RemoveFavorite_undo(st, cmd, env)
    [] cmd.type = "CLEAR_ALL"       -> ClearAll_undo(st, cmd, env)
    [] cmd.type = "BULK_ADD"        -> BulkAdd_undo(st, cmd, env)
    [] cmd.type = "CUSTOM"          -> Custom_undo(st, cmd, env)

\* --------------------------------------------------------- CommandManager
\* actionHistory[k + 1] is the code's actionHistory[k].
\* Variant: a canUndo() that looks at the history length instead of the cursor.
commandManager_canUndo_nonEmpty(st) == Len(st.actionHistory) > 0

commandManager_canUndo(st) == st.currentHistoryIndex >= 0

commandManager_canRedo(st) == st.currentHistoryIndex < Len(st.actionHistory) - 1

\* Variant: an executeAction that records only truthy results (if (result)
\* instead of if (result !== false)).
commandManager_executeAction_truthy(st, action, env) ==
  IF ~hasExecute(action) THEN [st |-> st, ret |-> "throw"]
  ELSE LET e == action_execute(st, action, env)
           h == e.st.actionHistory
           i == e.st.currentHistoryIndex
           spliced == IF i < Len(h) - 1 THEN SubSeq(h, 1, i + 1) ELSE h
       IN IF e.result = "throw" THEN [st |-> e.st, ret |-> "throw"]
          ELSE IF e.result \notin {"false", "undefined"}
          THEN [st |-> [e.st EXCEPT !.actionHistory = Append(spliced, e.cmd),
                                    !.currentHistoryIndex = i + 1],
                ret |-> "true"]
          ELSE [st |-> e.st, ret |-> "false"]

\* Variant: an executeAction that drops the redo branch before it awaits
\* execute(), and keeps it dropped when execute() throws or returns false.
commandManager_executeAction_splicesFirst(st, action, env) ==
  IF ~hasExecute(action) THEN [st |-> st, ret |-> "throw"]
  ELSE LET h == st.actionHistory
           i == st.currentHistoryIndex
           cut == [st EXCEPT !.actionHistory =
                               IF i < Len(h) - 1 THEN SubSeq(h, 1, i + 1) ELSE h]
           e == action_execute(cut, action, env)
       IN IF e.result = "throw" THEN [st |-> e.st, ret |-> "throw"]
          ELSE IF e.result # "false"
          THEN [st |-> [e.st EXCEPT !.actionHistory = Append(@, e.cmd),
                                    !.currentHistoryIndex = i + 1],
                ret |-> "true"]
          ELSE [st |-> e.st, ret |-> "false"]

\* Variant: an executeAction that appends without removing the redo branch.
commandManager_executeAction_keepsBranch(st, action, env) ==
  IF ~hasExecute(action) THEN [st |-> st, ret |-> "throw"]
  ELSE LET e == action_execute(st, action, env)
       IN IF e.result = "throw" THEN [st |-> e.st, ret |-> "throw"]
          ELSE IF e.result # "false"
          THEN [st |-> [e.st EXCEPT !.actionHistory = Append(@, e.cmd),
                                    !.currentHistoryIndex = @ + 1],
                ret |-> "true"]
          ELSE [st |-> e.st, ret |-> "false"]

commandManager_executeAction(st, action, env) ==
  IF ~hasExecute(action) THEN [st |-> st, ret |-> "throw"]
  ELSE LET e == action_execute(st, action, env)
           h == e.st.actionHistory
           i == e.st.currentHistoryIndex
           spliced == IF i < Len(h) - 1 THEN SubSeq(h, 1, i + 1) ELSE h
       IN IF e.result = "throw" THEN [st |-> e.st, ret |-> "throw"]
          ELSE IF e.result # "false"
          THEN [st |-> [e.st EXCEPT !.actionHistory = Append(spliced, e.cmd),
                                    !.currentHistoryIndex = i + 1],
                ret |-> "true"]
          ELSE [st |-> e.st, ret |-> "false"]

\* Variant: an undo that moves the cursor before it awaits action.undo() and
\* does not move it back in the catch block.
commandManager_undo_movesFirst(st, env) ==
  IF st.currentHistoryIndex < 0 THEN [st |-> st, ret |-> "false"]
  ELSE LET i == st.currentHistoryIndex
           action == st.actionHistory[i + 1]
           moved == [st EXCEPT !.currentHistoryIndex = i - 1]
       IN IF ~hasUndo(action) THEN [st |-> moved, ret |-> "false"]
          ELSE LET u == action_undo(moved, action, env)
               IN IF u.result = "throw" THEN [st |-> u.st, ret |-> "false"]
                  ELSE [st |-> [u.st EXCEPT !.actionHistory[i + 1] = u.cmd],
                        ret |-> "true"]

\* Variant: an undo that treats a false result of action.undo() as a failure,
\* the way executeAction treats a false result of execute().
commandManager_undo_checksResult(st, env) ==
  IF st.currentHistoryIndex < 0 THEN [st |-> st, ret |-> "false"]
  ELSE LET i == st.currentHistoryIndex
           action == st.actionHistory[i + 1]
       IN IF ~hasUndo(action) THEN [st |-> st, ret |-> "false"]
          ELSE LET u == action_undo(st, action, env)
               IN IF u.result \in {"throw", "false"}
                  THEN [st |-> u.st, ret |-> "false"]
                  ELSE [st |-> [u.st EXCEPT !.actionHistory[i + 1] = u.cmd,
                                            !.currentHistoryIndex = i - 1],
                        ret |-> "true"]

commandManager_undo(st, env) ==
  IF st.currentHistoryIndex < 0 THEN [st |-> st, ret |-> "false"]
  ELSE LET i == st.currentHistoryIndex
           action == st.actionHistory[i + 1]
       IN IF ~hasUndo(action) THEN [st |-> st, ret |-> "false"]
          ELSE LET u == action_undo(st, action, env)
               IN IF u.result = "throw" THEN [st |-> u.st, ret |-> "false"]
                  ELSE [st |-> [u.st EXCEPT !.actionHistory[i + 1] = u.cmd,
                                            !.currentHistoryIndex = i - 1],
                        ret |-> "true"]

\* Variant: a redo whose catch block does not move the cursor back.
commandManager_redo_noRollback(st, env) ==
  IF st.currentHistoryIndex >= Len(st.actionHistory) - 1
  THEN [st |-> st, ret |-> "false"]
  ELSE LET i == st.currentHistoryIndex + 1
           action == st.actionHistory[i + 1]
           e == action_execute(st, action, env)
       IN IF e.result = "throw"
          THEN [st |-> [e.st EXCEPT !.currentHistoryIndex = i], ret |-> "false"]
          ELSE [st |-> [e.st EXCEPT !.actionHistory[i + 1] = e.cmd,
                                    !.currentHistoryIndex = i],
                ret |-> "true"]

commandManager_redo(st, env) ==
  IF st.currentHistoryIndex >= Len(st.actionHistory) - 1
  THEN [st |-> st, ret |-> "false"]
  ELSE LET i == st.currentHistoryIndex + 1
           action == st.actionHistory[i + 1]
           e == action_execute(st, action, env)
       IN IF e.result = "throw"
          THEN [st |-> [e.st EXCEPT !.currentHistoryIndex = i - 1], ret |-> "false"]
          ELSE [st |-> [e.st EXCEPT !.actionHistory[i + 1] = e.cmd,
                                    !.currentHistoryIndex = i],
                ret |-> "true"]

\* Variant: a clearHistory that empties the history and leaves the cursor.
commandManager_clearHistory_keepsCursor(st, keepCurrent) ==
  IF keepCurrent /\ st.currentHistoryIndex >= 0
  THEN [st EXCEPT !.actionHistory = SubSeq(@, 1, st.currentHistoryIndex + 1)]
  ELSE [st EXCEPT !.actionHistory = <<>>]

\* Variant: a clearHistory that ignores keepCurrent and clears everything.
commandManager_clearHistory_ignoresKeep(st, keepCurrent) ==
  [st EXCEPT !.actionHistory = <<>>, !.currentHistoryIndex = -1]

commandManager_clearHistory(st, keepCurrent) ==
  IF keepCurrent /\ st.currentHistoryIndex >= 0
  THEN [st EXCEPT !.actionHistory = SubSeq(@, 1, st.currentHistoryIndex + 1)]
  ELSE [st EXCEPT !.actionHistory = <<>>, !.currentHistoryIndex = -1]

\* -------------------------------------------------------- ObserverManager
\* The elements of a Set object, and the object after add(url).
elemsOf(f, obj) == IF obj.ref = "store" THEN f ELSE obj.elems

\* subscribers.indexOf(callback), 1-based; 0 when absent.
indexOf(s, x) ==
  IF \E k \in 1..Len(s) : s[k] = x
  THEN CHOOSE k \in 1..Len(s) : s[k] = x /\ \A j \in 1..(k - 1) : s[j] # x
  ELSE 0

\* Variant: an unsubscribe that finds the callback and reports it removed
\* without splicing it out.
observerManager_unsubscribe_noSplice(st, callback) ==
  LET index == indexOf(st.subscribers, callback)
  IN [st |-> st, ret |-> IF index > 0 THEN "true" ELSE "false"]

observerManager_unsubscribe(st, callback) ==
  LET index == indexOf(st.subscribers, callback)
  IN IF index > 0
     THEN [st |-> [st EXCEPT !.subscribers =
                     SubSeq(@, 1, index - 1) \o SubSeq(@, index + 1, Len(@))],
           ret |-> "true"]
     ELSE [st |-> st, ret |-> "false"]

\* Variant: a notifySubscriber without try/catch: what a callback throws
\* escapes into the forEach of notifyAll.
notifySubscriber_noCatch(acc, callback) ==
  LET entry == [callback |-> callback,
                received |-> elemsOf(acc.favorites, acc.obj),
                threw |-> callback = "bad"]
      logged == [acc EXCEPT !.calls = Append(@, entry)]
  IN CASE callback = "ok"  -> logged
       [] callback = "bad" -> [logged EXCEPT !.escaped = TRUE]
       [] callback = "mutator" ->
            IF acc.obj.ref = "store"
            THEN [logged EXCEPT !.favorites = @ \cup {HackerUrl}]
            ELSE [logged EXCEPT !.obj.elems = @ \cup {HackerUrl}]
       [] callback = "late" -> logged
       [] callback = "adder" ->
            [logged EXCEPT !.subscribers = Append(@, "late")]
       [] callback = "remover" ->
            [logged EXCEPT !.subscribers =
                             observerManager_unsubscribe(logged, "ok").st.subscribers]

\* One callback invocation inside try/catch. acc carries the private Set, the
\* Set object being broadcast, the subscribers array, the invocations so far
\* and whether an exception escaped (the catch block lets none escape). The
\* callback "adder" calls subscribe(late) on the manager and "remover" calls
\* unsubscribe(ok), as a callback holding the manager can.
notifySubscriber(acc, callback) ==
  LET entry == [callback |-> callback,
                received |-> elemsOf(acc.favorites, acc.obj),
                threw |-> callback = "bad"]
      logged == [acc EXCEPT !.calls = Append(@, entry)]
  IN CASE callback = "ok"  -> logged
       [] callback = "bad" -> logged
       [] callback = "mutator" ->
            IF acc.obj.ref = "store"
            THEN [logged EXCEPT !.favorites = @ \cup {HackerUrl}]
            ELSE [logged EXCEPT !.obj.elems = @ \cup {HackerUrl}]
       [] callback = "late" -> logged
       [] callback = "adder" ->
            [logged EXCEPT !.subscribers = Append(@, "late")]
       [] callback = "remover" ->
            [logged EXCEPT !.subscribers =
                             observerManager_unsubscribe(logged, "ok").st.subscribers]

\* currentSubscribers.forEach(callback => this.notifySubscriber(callback, newState))
RECURSIVE notifyEach(_, _)
notifyEach(acc, currentSubscribers) ==
  IF currentSubscribers = <<>> \/ acc.escaped THEN acc
  ELSE notifyEach(notifySubscriber(acc, Head(currentSubscribers)),
                  Tail(currentSubscribers))

\* Variant: a notifyAll that iterates over the subscribers array itself:
\* forEach fixes the index range when it starts and skips the indices the
\* array no longer has.
observerManager_notifyAll_live(st, newState) ==
  LET RECURSIVE notifyLive(_, _, _)
      notifyLive(acc, k, n) ==
        IF k > n \/ acc.escaped THEN acc
        ELSE IF k > Len(acc.subscribers) THEN notifyLive(acc, k + 1, n)
        ELSE notifyLive(notifySubscriber(acc, acc.subscribers[k]), k + 1, n)
      done == notifyLive([favorites |-> st.favorites, obj |-> newState,
                          subscribers |-> st.subscribers,
                          calls |-> <<>>, escaped |-> FALSE],
                         1, Len(st.subscribers))
  IN [st |-> [st EXCEPT !.favorites = done.favorites,
                        !.subscribers = done.subscribers],
      calls |-> done.calls, threw |-> done.escaped]

observerManager_notifyAll(st, newState) ==
  LET currentSubscribers == st.subscribers
      acc == notifyEach([favorites |-> st.favorites, obj |-> newState,
                         subscribers |-> st.subscribers,
                         calls |-> <<>>, escaped |-> FALSE], currentSubscribers)
  IN [st |-> [st EXCEPT !.favorites = acc.favorites,
                        !.subscribers = acc.subscribers],
      calls |-> acc.calls, threw |-> acc.escaped]

observerManager_subscribe(st, callback, initialState) ==
  LET pushed == [st EXCEPT !.subscribers = Append(@, callback)]
  IN IF typeOf(callback) # "function"
     THEN [st |-> st, calls |-> <<>>, threw |-> TRUE]
     ELSE IF initialState.ref # "none"
     THEN LET acc == notifySubscriber([favorites |-> st.favorites,
                                       obj |-> initialState,
                                       subscribers |-> pushed.subscribers,
                                       calls |-> <<>>,
                                       escaped |-> FALSE], callback)
          IN [st |-> [pushed EXCEPT !.favorites = acc.favorites,
                                    !.subscribers = acc.subscribers],
              calls |-> acc.calls, threw |-> acc.escaped]
     ELSE [st |-> pushed, calls |-> <<>>, threw |-> FALSE]

\* ------------------------------------------------- createFavoritesStore
\* observerManager.notifyAll(stateStore.getAll()), then return wasDone.
notifyThenReturn(st, wasDone) ==
  LET n == observerManager_notifyAll(st, stateStore_getAll(st.favorites))
  IN [st |-> n.st, ret |-> IF n.threw THEN "throw" ELSE wasDone,
      calls |-> n.calls]

executeAndNotify(st, action, env) ==
  LET x == commandManager_executeAction(st, action, env)
  IN IF x.ret = "true" THEN notifyThenReturn(x.st, x.ret)
     ELSE [st |-> x.st, ret |-> x.ret, calls |-> <<>>]

\* const action = create...Fn(...); return await executeAndNotify(action):
\* what the factory throws rejects the promise the method returns.
createThenExecute(st, action, env) ==
  IF action = Thrown THEN [st |-> st, ret |-> "throw", calls |-> <<>>]
  ELSE executeAndNotify(st, action, env)

addFavorite(st, url, env) ==
  IF stateStore_has(st.favorites, url)
  THEN [st |-> st, ret |-> "false", calls |-> <<>>]
  ELSE createThenExecute(st, createAddFavoriteAction(url), env)

removeFavorite(st, url, env) ==
  IF ~stateStore_has(st.favorites, url)
  THEN [st |-> st, ret |-> "false", calls |-> <<>>]
  ELSE createThenExecute(st, createRemoveFavoriteAction(url), env)

\* Variant: a clearAll without the isEmpty() short-circuit.
clearAll_noShortCircuit(st, env) ==
  executeAndNotify(st, createClearAllAction, env)

clearAll(st, env) ==
  IF stateStore_isEmpty(st.favorites)
  THEN [st |-> st, ret |-> "false", calls |-> <<>>]
  ELSE executeAndNotify(st, createClearAllAction, env)

addMultiple(st, urls, env) ==
  createThenExecute(st, createBulkAddAction(urls), env)

undo(st, env) ==
  LET x == commandManager_undo(st, env)
  IN IF x.ret = "true" THEN notifyThenReturn(x.st, x.ret)
     ELSE [st |-> x.st, ret |-> x.ret, calls |-> <<>>]

redo(st, env) ==
  LET x == commandManager_redo(st, env)
  IN IF x.ret = "true" THEN notifyThenReturn(x.st, x.ret)
     ELSE [st |-> x.st, ret |-> x.ret, calls |-> <<>>]

subscribe(st, callback) ==
  LET x == observerManager_subscribe(st, callback, stateStore_getAll(st.favorites))
  IN [st |-> x.st, ret |-> IF x.threw THEN "throw" ELSE callback,
      calls |-> x.calls]

unsubscribe(st, callback) ==
  LET x == observerManager_unsubscribe(st, callback)
  IN [st |-> x.st, ret |-> x.ret, calls |-> <<>>]

clearHistory(st, keepCurrent) ==
  [st |-> commandManager_clearHistory(st, keepCurrent), ret |-> "undefined",
   calls |-> <<>>]

\* store.hydrate(snapshotOrIterable, { notify }): the object createFavoritesStore
\* returns has no hydrate property, so the call is a call of undefined and throws
\* a TypeError before anything is touched.
hydrate(st, snapshotOrIterable, notify) ==
  [st |-> st, ret |-> "throw", calls |-> <<>>]

\* ------------------------------------------------------ client-side calls
\* const snapshot = stateStore.getAll(); snapshot.add(url) / snapshot.delete(url)
\* (the state store is reachable through _getStateStore()).
getAllThenMutate(st, url, how) ==
  LET snapshot == stateStore_getAll(st.favorites)
      change(S) == IF how = "add" THEN S \cup {url} ELSE S \ {url}
  IN [st |-> IF snapshot.ref = "store"
             THEN [st EXCEPT !.favorites = change(@)]
             ELSE st,
      ret |-> "undefined", calls |-> <<>>]

\* ------------------------------------------------------------ the machine
\* The arrays callers pass to addMultiple, the remote table contents other
\* sessions leave behind.
Batches == {<<"m1">>, <<"m1", "m2", "m1">>, <<"m2", "m2">>}
RemoteTables == {{}, Urls}

\* What a call can meet on the remote side: the table content d when it starts
\* and how the service answers; a service that is down never reads the table.
Remotes ==
  {rm \in RemoteTables \X Env : rm[2].clearServed \/ rm[1] = {}}

Init ==
  /\ favorites = {}
  /\ actionHistory = <<>>
  /\ currentHistoryIndex = -1
  /\ subscribers = <<>>
  /\ last = [op |-> "create", ret |-> "object", calls |-> <<>>]

\* A completed call: the program state after it and what the caller observed
\* (its result, and the subscriber invocations it made).
Completed(r, op, maxHistory) ==
  /\ Len(r.st.actionHistory) <= maxHistory
  /\ Len(r.st.subscribers) <= MaxSubscribers
  /\ favorites' = r.st.favorites
  /\ actionHistory' = r.st.actionHistory
  /\ currentHistoryIndex' = r.st.currentHistoryIndex
  /\ subscribers' = r.st.subscribers
  /\ last' = [op |-> op, ret |-> r.ret, calls |-> r.calls]

AddFavorite(maxHistory) ==
  \E url \in Urls, rm \in Remotes :
    Completed(addFavorite(State(rm[1]), url, rm[2]), "addFavorite", maxHistory)

RemoveFavorite(maxHistory) ==
  \E url \in Urls, rm \in Remotes :
    Completed(removeFavorite(State(rm[1]), url, rm[2]), "removeFavorite", maxHistory)

ClearAll(maxHistory) ==
  \E rm \in Remotes :
    Completed(clearAll(State(rm[1]), rm[2]), "clearAll", maxHistory)

AddMultiple(maxHistory) ==
  \E urls \in Batches, rm \in Remotes :
    Completed(addMultiple(State(rm[1]), urls, rm[2]), "addMultiple", maxHistory)

Undo ==
  \E rm \in Remotes :
    Completed(undo(State(rm[1]), rm[2]), "undo", MaxHistory)

Redo ==
  \E rm \in Remotes :
    Completed(redo(State(rm[1]), rm[2]), "redo", MaxHistory)

ClearHistory ==
  \E keepCurrent \in BOOLEAN :
    Completed(clearHistory(State({}), keepCurrent), "clearHistory", MaxHistory)

Subscribe(callbacks) ==
  \E callback \in callbacks :
    Completed(subscribe(State({}), callback), "subscribe", MaxHistory)

Unsubscribe(callbacks) ==
  \E callback \in callbacks :
    Completed(unsubscribe(State({}), callback), "unsubscribe", MaxHistory)

GetAllThenMutate ==
  \E url \in Urls \cup {HackerUrl}, how \in {"add", "delete"} :
    Completed(getAllThenMutate(State({}), url, how), "getAllThenMutate", MaxHistory)

\* Spec: the facade with well-behaved subscribers and histories up to
\* MaxHistory.
Next ==
  \/ AddFavorite(MaxHistory)
  \/ RemoveFavorite(MaxHistory)
  \/ ClearAll(MaxHistory)
  \/ AddMultiple(MaxHistory)
  \/ Undo
  \/ Redo
  \/ ClearHistory
  \/ Subscribe(WellBehaved)
  \/ Unsubscribe(WellBehaved)
  \/ GetAllThenMutate

Spec == Init /\ [][Next]_vars

\* SpecObs: the facade with subscribers that may throw or mutate the Set they
\* are given, and histories up to MaxObsHistory.
NextObs ==
  \/ AddFavorite(MaxObsHistory)
  \/ RemoveFavorite(MaxObsHistory)
  \/ ClearAll(MaxObsHistory)
  \/ AddMultiple(MaxObsHistory)
  \/ Undo
  \/ Redo
  \/ ClearHistory
  \/ Subscribe(Callbacks)
  \/ Unsubscribe(Callbacks)
  \/ GetAllThenMutate

SpecObs == Init /\ [][NextObs]_vars

\* SpecCM: one CommandManager driven directly, as its unit tests do, with
\* caller-made commands; the caller looks at getHistory() before each call.
CustomCommands ==
  [type : {"CUSTOM"}, name : CommandNames, hasExecute : BOOLEAN, hasUndo : BOOLEAN]

CompletedCM(r, op) ==
  /\ Len(r.st.actionHistory) <= MaxHistory
  /\ favorites' = r.st.favorites
  /\ actionHistory' = r.st.actionHistory
  /\ currentHistoryIndex' = r.st.currentHistoryIndex
  /\ subscribers' = r.st.subscribers
  /\ last' = [op |-> op, ret |-> r.ret, calls |-> <<>>,
              before |-> [currentIndex |-> currentHistoryIndex,
                          totalActions |-> Len(actionHistory)]]

InitCM ==
  /\ favorites = {}
  /\ actionHistory = <<>>
  /\ currentHistoryIndex = -1
  /\ subscribers = <<>>
  /\ last = [op |-> "create", ret |-> "object", calls |-> <<>>,
             before |-> [currentIndex |-> -1, totalActions |-> 0]]

ExecuteAction ==
  \E action \in CustomCommands, outcome \in Outcomes :
    CompletedCM(commandManager_executeAction(State({}), action,
                                              [outcome |-> outcome]),
                "executeAction")

UndoCM ==
  \E outcome \in Outcomes :
    CompletedCM(commandManager_undo(State({}), [outcome |-> outcome]), "undo")

RedoCM ==
  \E outcome \in Outcomes :
    CompletedCM(commandManager_redo(State({}), [outcome |-> outcome]), "redo")

ClearHistoryCM ==
  \E keepCurrent \in BOOLEAN :
    CompletedCM([st |-> commandManager_clearHistory(State({}), keepCurrent),
                 ret |-> "undefined"], "clearHistory")

NextCM ==
  \/ ExecuteAction
  \/ UndoCM
  \/ RedoCM
  \/ ClearHistoryCM

SpecCM == InitCM /\ [][NextCM]_vars

\* SpecRemote: the facade together with the remote favorites table of this
\* session: last.db is the table after the call, last.env how the service
\* answered during it.
CompletedRemote(r, op, env) ==
  /\ Len(r.st.actionHistory) <= MaxRemoteHistory
  /\ Len(r.st.subscribers) <= MaxSubscribers
  /\ favorites' = r.st.favorites
  /\ actionHistory' = r.st.actionHistory
  /\ currentHistoryIndex' = r.st.currentHistoryIndex
  /\ subscribers' = r.st.subscribers
  /\ last' = [op |-> op, ret |-> r.ret, calls |-> r.calls, db |-> r.st.db,
              env |-> env]

InitRemote ==
  /\ favorites = {}
  /\ actionHistory = <<>>
  /\ currentHistoryIndex = -1
  /\ subscribers = <<>>
  /\ \E d \in RemoteTables, env \in Env :
       last = [op |-> "create", ret |-> "object", calls |-> <<>>, db |-> d,
               env |-> env]

RemoteAddFavorite ==
  \E url \in Urls, env \in Env :
    CompletedRemote(addFavorite(State(last.db), url, env), "addFavorite", env)

RemoteRemoveFavorite ==
  \E url \in Urls, env \in Env :
    CompletedRemote(removeFavorite(State(last.db), url, env), "removeFavorite", env)

RemoteClearAll ==
  \E env \in Env :
    CompletedRemote(clearAll(State(last.db), env), "clearAll", env)

RemoteAddMultiple ==
  \E urls \in Batches, env \in Env :
    CompletedRemote(addMultiple(State(last.db), urls, env), "addMultiple", env)

RemoteUndo ==
  \E env \in Env : CompletedRemote(undo(State(last.db), env), "undo", env)

RemoteRedo ==
  \E env \in Env : CompletedRemote(redo(State(last.db), env), "redo", env)

RemoteSubscribe ==
  \E callback \in WellBehaved :
    CompletedRemote(subscribe(State(last.db), callback), "subscribe", last.env)

NextRemote ==
  \/ RemoteAddFavorite
  \/ RemoteRemoveFavorite
  \/ RemoteClearAll
  \/ RemoteAddMultiple
  \/ RemoteUndo
  \/ RemoteRedo
  \/ RemoteSubscribe

SpecRemote == InitRemote /\ [][NextRemote]_vars

\* SpecStore: one StateStore driven directly, as state-store.test.js does; the
\* caller keeps the Set the last clear() or getAll() returned (held, with the
\* call it came from) and may mutate it or pass it to restore().
mutateHeld(f, obj, url, how) ==
  LET change(S) == IF how = "add" THEN S \cup {url} ELSE S \ {url}
  IN IF obj.ref = "store"
     THEN [favorites |-> change(f), obj |-> obj]
     ELSE [favorites |-> f, obj |-> [obj EXCEPT !.elems = change(@)]]

CompletedStore(f, op, ret, held, heldFrom) ==
  /\ favorites' = f
  /\ last' = [op |-> op, ret |-> ret, calls |-> <<>>, held |-> held,
              heldFrom |-> heldFrom]
  /\ UNCHANGED <<actionHistory, currentHistoryIndex, subscribers>>

InitStore ==
  /\ favorites = {}
  /\ actionHistory = <<>>
  /\ currentHistoryIndex = -1
  /\ subscribers = <<>>
  /\ last = [op |-> "create", ret |-> "object", calls |-> <<>>,
             held |-> NoObject, heldFrom |-> "none"]

StoreAdd ==
  \E url \in Urls :
    LET a == stateStore_add(favorites, url)
    IN CompletedStore(a.favorites, "add",
                      IF a.threw THEN "throw" ELSE Bool(a.ret),
                      last.held, last.heldFrom)

StoreRemove ==
  \E url \in Urls :
    LET a == stateStore_remove(favorites, url)
    IN CompletedStore(a.favorites, "remove",
                      IF a.threw THEN "throw" ELSE Bool(a.ret),
                      last.held, last.heldFrom)

StoreGetAll ==
  CompletedStore(favorites, "getAll", "object", stateStore_getAll(favorites),
                 "getAll")

StoreClear ==
  LET c == stateStore_clear(favorites)
  IN CompletedStore(c.favorites, "clear", "object", c.ret, "clear")

\* restore(held); a caller holding no Set passes null, which restore rejects.
StoreRestore ==
  LET r == stateStore_restore(favorites, last.held)
  IN CompletedStore(r.favorites, "restore",
                    IF r.threw THEN "throw" ELSE "undefined",
                    last.held, last.heldFrom)

StoreMutateHeld ==
  /\ last.held.ref # "none"
  /\ \E url \in Urls \cup {HackerUrl}, how \in {"add", "delete"} :
       LET m == mutateHeld(favorites, last.held, url, how)
       IN CompletedStore(m.favorites, "mutateHeld", "undefined", m.obj,
                         last.heldFrom)

NextStore ==
  \/ StoreAdd
  \/ StoreRemove
  \/ StoreGetAll
  \/ StoreClear
  \/ StoreRestore
  \/ StoreMutateHeld

SpecStore == InitStore /\ [][NextStore]_vars

\* ------------------------------------------------------------ properties
\* The store as the next call finds it, whatever the remote table holds.
Here == State({})

SameStore(st) ==
  /\ st.favorites = favorites
  /\ st.actionHistory = actionHistory
  /\ st.currentHistoryIndex = currentHistoryIndex

\* C1 (Spec): in every state where canUndo() is true, undo() followed at once
\* by redo() succeeds and leaves the favorites set, the history contents
\* (the commands with what their closures hold) and the cursor as they were,
\* whatever the remote service answers during either call.
UndoRedoRoundTrip ==
  commandManager_canUndo(Here) =>
    \A rm1 \in Remotes :
      LET u == undo(State(rm1[1]), rm1[2])
      IN /\ u.ret = "true"
         /\ \A rm2 \in Remotes :
              LET r == redo([u.st EXCEPT !.db = rm2[1]], rm2[2])
              IN r.ret = "true" /\ SameStore(r.st)

\* C1 witness: execute, execute, undo, redo has just completed on a bulk add
\* that found one of its urls already present.
UndoRedoRoundTripWitness ==
  /\ last.op = "redo" /\ last.ret = "true"
  /\ currentHistoryIndex = 1
  /\ actionHistory[2].type = "BULK_ADD"
  /\ Len(actionHistory[2].addedUrls) < Len(actionHistory[2].urls)

\* C2 (SpecCM): whenever executeAction records a command while the cursor is
\* before the end of the history, the commands after the cursor are removed
\* and the new command appended: afterwards canRedo() is false, the new
\* command is the last entry and the cursor is length - 1.
RedoBranchDiscarded ==
  commandManager_canRedo(Here) =>
    \A action \in CustomCommands, outcome \in Outcomes :
      LET x == commandManager_executeAction(Here, action, [outcome |-> outcome])
          h == x.st.actionHistory
      IN x.ret = "true" =>
           /\ ~commandManager_canRedo(x.st)
           /\ h = Append(SubSeq(actionHistory, 1, currentHistoryIndex + 1), action)
           /\ x.st.currentHistoryIndex = Len(h) - 1

\* C2 witness: a command was recorded by a call that found a redo branch.
RedoBranchDiscardedWitness ==
  /\ last.op = "executeAction" /\ last.ret = "true"
  /\ last.before.currentIndex < last.before.totalActions - 1
  /\ currentHistoryIndex = Len(actionHistory) - 1

\* C3 (SpecCM): after every completed CommandManager call, throwing commands
\* included, -1 <= currentIndex <= history length - 1.
CursorInBounds ==
  /\ -1 <= currentHistoryIndex
  /\ currentHistoryIndex <= Len(actionHistory) - 1

\* C3 witness: a redo whose command threw has been rolled back with the redo
\* branch still ahead of the cursor.
CursorInBoundsWitness ==
  /\ last.op = "redo" /\ last.ret = "false"
  /\ last.before.currentIndex < last.before.totalActions - 1
  /\ currentHistoryIndex = last.before.currentIndex

\* C4 (SpecCM): an executeAction whose command throws (or has no execute
\* method) propagates the error and leaves history contents, length, cursor,
\* canUndo() and canRedo() as they were.
FailedExecuteLeavesHistory ==
  \A action \in CustomCommands :
    LET x == commandManager_executeAction(Here, action, [outcome |-> "throw"])
    IN /\ x.ret = "throw"
       /\ SameStore(x.st)
       /\ commandManager_canUndo(x.st) = commandManager_canUndo(Here)
       /\ commandManager_canRedo(x.st) = commandManager_canRedo(Here)

\* C4 witness: an executeAction threw while a redo branch existed, and the
\* branch is still there.
FailedExecuteLeavesHistoryWitness ==
  /\ last.op = "executeAction" /\ last.ret = "throw"
  /\ last.before.currentIndex < last.before.totalActions - 1
  /\ commandManager_canRedo(Here)

\* What a caller sees of a call: the callbacks it invoked, in order.
NotifiedOf(calls) == [k \in 1..Len(calls) |-> calls[k].callback]

SetOf(s) == {s[k] : k \in 1..Len(s)}

Untouched(r) == r.ret = "false" /\ SameStore(r.st) /\ r.calls = <<>>

MutatingOps ==
  {"addFavorite", "removeFavorite", "clearAll", "addMultiple", "undo", "redo"}

\* C5 (Spec): addFavorite of an id already present, removeFavorite of an id
\* absent and clearAll on an empty store return false, leave favorites,
\* history and cursor unchanged and invoke no subscriber; addFavorite(id)
\* twice in a row on a new store yields count 1 and one history entry.
NoOpShortCircuit ==
  \A rm \in Remotes :
    /\ \A url \in favorites : Untouched(addFavorite(State(rm[1]), url, rm[2]))
    /\ \A url \in Urls \ favorites : Untouched(removeFavorite(State(rm[1]), url, rm[2]))
    /\ favorites = {} => Untouched(clearAll(State(rm[1]), rm[2]))
    /\ \A url \in Urls \ favorites :
         LET first == addFavorite(State(rm[1]), url, rm[2])
             second == addFavorite(first.st, url, rm[2])
         IN /\ first.ret = "true" /\ second.ret = "false"
            /\ second.st = first.st /\ second.calls = <<>>
            /\ actionHistory = <<>> /\ favorites = {} =>
                 /\ stateStore_getCount(second.st.favorites) = 1
                 /\ Len(second.st.actionHistory) = 1

\* C5 witness: a clearAll on an empty store with a subscriber registered has
\* returned false and invoked nobody.
NoOpShortCircuitWitness ==
  /\ last.op = "clearAll" /\ last.ret = "false" /\ last.calls = <<>>
  /\ favorites = {} /\ subscribers # <<>> /\ actionHistory # <<>>

\* C6 (SpecObs): each of addFavorite, removeFavorite, clearAll, addMultiple,
\* undo and redo that returns true invokes every subscriber exactly once
\* (each registration once, in order) with a snapshot equal to the favorites
\* set after the operation; one that returns false invokes nobody; subscribe
\* invokes only the new subscriber, once, with the current set.
OneNotificationPerSubscriber ==
  /\ last.op \in MutatingOps /\ last.ret = "true" =>
       /\ NotifiedOf(last.calls) = subscribers
       /\ \A k \in 1..Len(last.calls) : last.calls[k].received = favorites
  /\ last.op \in MutatingOps /\ last.ret # "true" => last.calls = <<>>
  /\ last.op = "subscribe" =>
       /\ NotifiedOf(last.calls) = <<last.ret>>
       /\ last.calls[1].received = favorites

\* C7 (SpecObs): adding to or deleting from a Set returned by getAll() or
\* passed to a subscriber never changes the store: the private Set holds
\* only ids the store's own operations put there, and getCount(), has()
\* and getAll() answer as if the snapshot had not been touched.
SnapshotMutationHarmless ==
  /\ HackerUrl \notin favorites
  /\ \A url \in Urls \cup {HackerUrl}, how \in {"add", "delete"} :
       getAllThenMutate(Here, url, how).st = Here
  /\ LET n == notifyThenReturn(Here, "true")
     IN /\ n.st = Here
        /\ stateStore_getCount(n.st.favorites) = stateStore_getCount(favorites)
        /\ stateStore_getAll(n.st.favorites).elems = favorites
        /\ \A url \in Urls \cup {HackerUrl} :
             stateStore_has(n.st.favorites, url) = stateStore_has(favorites, url)

\* C7 witness: a subscriber has just added an id to the snapshot it was
\* passed and the store does not hold it.
SnapshotMutationHarmlessWitness ==
  /\ last.op = "addFavorite" /\ last.ret = "true"
  /\ \E k \in 1..Len(last.calls) : last.calls[k].callback = "mutator"
  /\ favorites # {} /\ HackerUrl \notin favorites

\* C8 (SpecObs): a throwing subscriber does not stop a notification pass:
\* every callback registered at the start of the pass is invoked exactly once
\* (each registration once, in order), all with the state of that pass, and
\* the operation returns normally; subscribing a callback that throws on its
\* first notification still registers it and returns its unsubscribe handle.
ThrowingSubscriberIsolated ==
  /\ LET n == notifyThenReturn(Here, "true")
     IN /\ n.ret = "true"
        /\ NotifiedOf(n.calls) = subscribers
        /\ \A k \in 1..Len(n.calls) : n.calls[k].received \ {HackerUrl} = favorites
  /\ last.op \in MutatingOps /\ last.ret = "true" =>
       NotifiedOf(last.calls) = subscribers
  /\ \A callback \in Callbacks :
       LET s == subscribe(Here, callback)
       IN /\ s.ret = callback
          /\ s.st.subscribers = Append(subscribers, callback)
          /\ NotifiedOf(s.calls) = <<callback>>

\* C8 witness: a pass in which the first subscriber threw and the second was
\* still invoked.
ThrowingSubscriberIsolatedWitness ==
  /\ last.op = "addFavorite" /\ last.ret = "true"
  /\ subscribers = <<"bad", "ok">>
  /\ Len(last.calls) = 2
  /\ last.calls[1].threw /\ last.calls[2].callback = "ok"
  /\ last.calls[2].received = favorites

\* C9 (Spec): after any addFavorite, removeFavorite, clearAll or addMultiple
\* that returned true, an undo() issued at once returns true and the favorites
\* set is the one before that mutation.
Reverted(r) ==
  r.ret = "true" =>
    \A rm \in Remotes :
      LET u == undo([r.st EXCEPT !.db = rm[1]], rm[2])
      IN u.ret = "true" /\ u.st.favorites = favorites

UndoRevertsLastMutation ==
  \A rm \in Remotes :
    /\ \A url \in Urls \ favorites : Reverted(addFavorite(State(rm[1]), url, rm[2]))
    /\ \A url \in favorites : Reverted(removeFavorite(State(rm[1]), url, rm[2]))
    /\ Reverted(clearAll(State(rm[1]), rm[2]))
    /\ \A urls \in Batches : Reverted(addMultiple(State(rm[1]), urls, rm[2]))

\* C9 witness: a clearAll of two favorites has just been undone.
UndoRevertsLastMutationWitness ==
  /\ last.op = "undo" /\ last.ret = "true"
  /\ commandManager_canRedo(Here)
  /\ actionHistory[currentHistoryIndex + 2].type = "CLEAR_ALL"
  /\ favorites = Urls

\* What one addMultiple(urls) call does when it records: each requested id is
\* a favorite afterwards, the count grew by the distinct new ids, the history
\* got one BULK_ADD entry at the cursor and each registration one call.
RecordedOnce(r, urls) ==
  /\ r.ret = "true"
  /\ r.st.favorites = favorites \cup SetOf(urls)
  /\ stateStore_getCount(r.st.favorites) =
       stateStore_getCount(favorites) + Cardinality(SetOf(urls) \ favorites)
  /\ Len(r.st.actionHistory) = currentHistoryIndex + 2
  /\ r.st.currentHistoryIndex = currentHistoryIndex + 1
  /\ r.st.actionHistory[Len(r.st.actionHistory)].type = "BULK_ADD"
  /\ SubSeq(r.st.actionHistory, 1, currentHistoryIndex + 1) =
       SubSeq(actionHistory, 1, currentHistoryIndex + 1)
  /\ NotifiedOf(r.calls) = subscribers

\* C10 as stated (Spec): every addMultiple(ids) adds each distinct absent id
\* once and produces exactly one history entry and one notification per
\* subscriber.
AddMultipleAlwaysRecordsOnce ==
  \A urls \in Batches, rm \in Remotes :
    RecordedOnce(addMultiple(State(rm[1]), urls, rm[2]), urls)

\* C10 amended (Spec): addMultiple(ids) with at least one id not yet a
\* favorite adds each distinct absent id once and produces exactly one
\* history entry and one notification per subscriber; with every id already
\* a favorite it returns false, records nothing and notifies nobody.
AddMultipleRecordsOnceWhenNew ==
  \A urls \in Batches, rm \in Remotes :
    LET r == addMultiple(State(rm[1]), urls, rm[2])
    IN IF SetOf(urls) \ favorites # {}
       THEN RecordedOnce(r, urls)
       ELSE Untouched(r)

\* C10 witness: an array naming one id twice was recorded as a single entry
\* and each subscriber was called once.
AddMultipleRecordsOnceWhenNewWitness ==
  /\ last.op = "addMultiple" /\ last.ret = "true"
  /\ currentHistoryIndex >= 0
  /\ actionHistory[currentHistoryIndex + 1].urls = <<"m1", "m2", "m1">>
  /\ actionHistory[currentHistoryIndex + 1].addedUrls = <<"m1", "m2">>
  /\ subscribers # <<>> /\ NotifiedOf(last.calls) = subscribers

\* C11 (Spec): hydrate(ids, {notify}) replaces the favorites set with ids,
\* leaves history, cursor, canUndo() and canRedo() unchanged, and notifies each
\* subscriber once when notify is true and nobody when it is false.
HydrateReplacesFavorites ==
  \A ids \in SUBSET Urls, notify \in BOOLEAN :
    LET r == hydrate(Here, ids, notify)
    IN /\ r.ret # "throw"
       /\ r.st.favorites = ids
       /\ r.st.actionHistory = actionHistory
       /\ r.st.currentHistoryIndex = currentHistoryIndex
       /\ commandManager_canUndo(r.st) = commandManager_canUndo(Here)
       /\ commandManager_canRedo(r.st) = commandManager_canRedo(Here)
       /\ NotifiedOf(r.calls) = IF notify THEN subscribers ELSE <<>>

\* How many times x occurs in the sequence s.
Count(s, x) == Cardinality({k \in 1..Len(s) : s[k] = x})

ClearRestoreInverse ==
  LET c == stateStore_clear(favorites)
      restored == stateStore_restore(c.favorites, c.ret).favorites
  IN /\ c.favorites = {}
     /\ elemsOf(c.favorites, c.ret) = favorites
     /\ restored = favorites
     /\ \A url \in Urls \cup {HackerUrl}, how \in {"add", "delete"} :
          mutateHeld(restored, c.ret, url, how).favorites = favorites

\* C13 witness: the snapshot a clear() of two favorites returned has been
\* passed to restore() and the two favorites are back.
ClearRestoreInverseWitness ==
  /\ last.op = "restore" /\ last.ret = "undefined"
  /\ last.heldFrom = "clear" /\ last.held.elems = Urls
  /\ favorites = Urls

\* A call that did its work: true, the favorites set f, one more history
\* entry at the cursor and one call per registration.
Executed(r, f) ==
  /\ r.ret = "true"
  /\ r.st.favorites = f
  /\ Len(r.st.actionHistory) = currentHistoryIndex + 2
  /\ r.st.currentHistoryIndex = currentHistoryIndex + 1
  /\ NotifiedOf(r.calls) = subscribers

\* A undo()/redo() that did its work: true, the cursor moved by step, the
\* history as long as before and one call per registration.
Moved(r, step) ==
  /\ r.ret = "true"
  /\ r.st.currentHistoryIndex = currentHistoryIndex + step
  /\ Len(r.st.actionHistory) = Len(actionHistory)
  /\ NotifiedOf(r.calls) = subscribers

\* C14 (SpecRemote): whatever the remote call does (resolves true, resolves
\* false or rejects), addFavorite of an absent id, removeFavorite of a present
\* id, clearAll of a non-empty store and addMultiple with a new id do their
\* local work, return true, record one history entry and notify once; undo
\* and redo of each likewise return true and notify once; none throws.
RemoteNeverBlocksLocal ==
  \A rm \in Remotes :
    LET st == State(rm[1])
        env == rm[2]
    IN /\ \A url \in Urls \ favorites :
            Executed(addFavorite(st, url, env), favorites \cup {url})
       /\ \A url \in favorites :
            Executed(removeFavorite(st, url, env), favorites \ {url})
       /\ favorites # {} => Executed(clearAll(st, env), {})
       /\ \A urls \in Batches :
            SetOf(urls) \ favorites # {} =>
              Executed(addMultiple(st, urls, env), favorites \cup SetOf(urls))
       /\ commandManager_canUndo(st) => Moved(undo(st, env), -1)
       /\ commandManager_canRedo(st) => Moved(redo(st, env), 1)

\* C14 witness: an addFavorite whose remote call was rejected has returned
\* true, added the id locally and notified the subscriber, while the remote
\* table does not hold the id.
RemoteNeverBlocksLocalWitness ==
  /\ last.op = "addFavorite" /\ last.ret = "true"
  /\ last.env.served = {}
  /\ "m1" \in favorites /\ "m1" \notin last.db
  /\ Len(last.calls) = 1

\* The results of execute() that JavaScript treats as falsy.
Falsy == {"false", "undefined"}

Executable == {action \in CustomCommands : action.hasExecute}

\* C15 as stated (SpecCM): when execute() returns a falsy result without
\* throwing, executeAction returns false and history, cursor and redo tail
\* are as before.
FalsyResultRefused ==
  \A action \in Executable, outcome \in Falsy :
    LET x == commandManager_executeAction(Here, action, [outcome |-> outcome])
    IN x.ret = "false" /\ SameStore(x.st)

\* C15 amended (SpecCM): when execute() returns exactly false, executeAction
\* returns false and history, cursor and redo tail are as before; any other
\* result that is not a throw, undefined included, records the command and
\* returns true.
FalseResultRefused ==
  \A action \in Executable, outcome \in Outcomes \ {"throw"} :
    LET x == commandManager_executeAction(Here, action, [outcome |-> outcome])
    IN IF outcome = "false"
       THEN /\ x.ret = "false" /\ SameStore(x.st)
            /\ commandManager_canRedo(x.st) = commandManager_canRedo(Here)
       ELSE /\ x.ret = "true"
            /\ x.st.actionHistory =
                 Append(SubSeq(actionHistory, 1, currentHistoryIndex + 1), action)
            /\ x.st.currentHistoryIndex = currentHistoryIndex + 1

\* C15 witness: an executeAction whose command returned false has returned
\* false while a redo branch existed, and the branch is still there.
FalseResultRefusedWitness ==
  /\ last.op = "executeAction" /\ last.ret = "false"
  /\ last.before.currentIndex < last.before.totalActions - 1
  /\ currentHistoryIndex = last.before.currentIndex
  /\ Len(actionHistory) = last.before.totalActions

\* The CommandManager of SpecCM behind a facade with one subscriber.
Watched == [Here EXCEPT !.subscribers = <<"ok">>]

\* C16 (SpecCM): when the cursor is >= 0 and the undo of the command at the
\* cursor throws, or the command has no undo, undo() returns false, history
\* and cursor are as before, canUndo() is still true and the facade notifies
\* nobody.
UndoFailureKeepsCursor ==
  commandManager_canUndo(Here) =>
    \A outcome \in Outcomes :
      outcome = "throw" \/ ~hasUndo(actionHistory[currentHistoryIndex + 1]) =>
        LET u == undo(Watched, [outcome |-> outcome])
        IN /\ u.ret = "false"
           /\ SameStore(u.st)
           /\ commandManager_canUndo(u.st)
           /\ u.calls = <<>>

\* C16 witness: an undo has returned false with the cursor on a command, and
\* the cursor has not moved.
UndoFailureKeepsCursorWitness ==
  /\ last.op = "undo" /\ last.ret = "false"
  /\ last.before.currentIndex >= 0
  /\ currentHistoryIndex = last.before.currentIndex
  /\ Len(actionHistory) = last.before.totalActions

\* C17 (SpecCM): when the cursor is before the end of the history and the
\* execute of the command after it throws, redo() returns false, cursor and
\* history are as before, canRedo() is still true and the facade notifies
\* nobody.
RedoFailureRollsBack ==
  commandManager_canRedo(Here) =>
    LET r == redo(Watched, [outcome |-> "throw"])
    IN /\ r.ret = "false"
       /\ SameStore(r.st)
       /\ commandManager_canRedo(r.st)
       /\ r.calls = <<>>

\* C17 witness: a redo has returned false with two commands ahead of the
\* cursor, and both are still ahead of it.
RedoFailureRollsBackWitness ==
  /\ last.op = "redo" /\ last.ret = "false"
  /\ last.before.currentIndex = -1 /\ last.before.totalActions = 2
  /\ currentHistoryIndex = -1 /\ Len(actionHistory) = 2

\* C18 (Spec): undo() with the cursor < 0 and redo() with the cursor at the end
\* return false, run no command (favorites and remote table as before), leave
\* history and cursor unchanged and notify nobody; canUndo() is true exactly
\* when cursor >= 0 and canRedo() exactly when cursor < length - 1.
BoundaryUndoRedoNoOp ==
  /\ commandManager_canUndo(Here) = (currentHistoryIndex >= 0)
  /\ commandManager_canRedo(Here) = (currentHistoryIndex < Len(actionHistory) - 1)
  /\ \A rm \in Remotes :
       /\ currentHistoryIndex < 0 =>
            LET u == undo(State(rm[1]), rm[2])
            IN Untouched(u) /\ u.st.db = rm[1]
       /\ currentHistoryIndex >= Len(actionHistory) - 1 =>
            LET r == redo(State(rm[1]), rm[2])
            IN Untouched(r) /\ r.st.db = rm[1]

\* C18 witness: an undo() past the start of a non-empty history has returned
\* false with a subscriber registered and nobody was called.
BoundaryUndoRedoNoOpWitness ==
  /\ last.op = "undo" /\ last.ret = "false" /\ last.calls = <<>>
  /\ currentHistoryIndex = -1 /\ Len(actionHistory) = 2
  /\ subscribers # <<>>

\* The command at the cursor of st, and the one just after it.
AtCursor(st) == st.actionHistory[st.currentHistoryIndex + 1]

AfterCursor(st) == st.actionHistory[st.currentHistoryIndex + 2]

\* C19 (SpecRemote): after an addMultiple(ids) that returned true on a store holding
\* some of the ids, undo() removes exactly the ids that were absent before the
\* batch and keeps the others; the tracked list is empty after the undo, a
\* redo rebuilds it with the same ids and a second undo removes them again.
BulkUndoRemovesOnlyAdded ==
  \A urls \in Batches, env \in Env :
    LET a == addMultiple(State(last.db), urls, env)
        u == undo(a.st, env)
        r == redo(u.st, env)
        u2 == undo(r.st, env)
        new == SetOf(urls) \ favorites
    IN a.ret = "true" =>
         /\ SetOf(AtCursor(a.st).addedUrls) = new
         /\ u.ret = "true" /\ u.st.favorites = a.st.favorites \ new
         /\ u.st.favorites = favorites
         /\ AfterCursor(u.st).addedUrls = <<>>
         /\ r.ret = "true" /\ r.st.favorites = a.st.favorites
         /\ AtCursor(r.st).addedUrls = AtCursor(a.st).addedUrls
         /\ u2.ret = "true" /\ u2.st.favorites = favorites
         /\ AfterCursor(u2.st).addedUrls = <<>>

\* C19 witness: the batch [m1, m2, m1] run on a store holding m1 has been
\* undone: m2 is gone, m1 is kept and the tracked list is empty.
BulkUndoRemovesOnlyAddedWitness ==
  /\ last.op = "undo" /\ last.ret = "true"
  /\ commandManager_canRedo(Here)
  /\ AfterCursor(Here).type = "BULK_ADD"
  /\ AfterCursor(Here).urls = <<"m1", "m2", "m1">>
  /\ AfterCursor(Here).addedUrls = <<>>
  /\ favorites = {"m1"}

\* C20 (SpecRemote): BulkAdd.execute returns true exactly when it newly added at
\* least one id and false otherwise; an addMultiple whose ids are all
\* favorites already returns false, records nothing, keeps the redo tail and
\* notifies nobody.
BulkExecuteTrueIffAdded ==
  \A urls \in Batches, env \in Env :
    LET e == BulkAdd_execute(State(last.db), createBulkAddAction(urls), env)
        r == addMultiple(State(last.db), urls, env)
    IN /\ e.result = Bool(SetOf(urls) \ favorites # {})
       /\ e.result = Bool(e.st.favorites # favorites)
       /\ SetOf(urls) \subseteq favorites =>
            /\ Untouched(r)
            /\ commandManager_canRedo(r.st) = commandManager_canRedo(Here)

\* C20 witness: an addMultiple of ids that were all favorites has returned
\* false with a redo tail and a subscriber present; the tail is still there
\* and nobody was called.
BulkExecuteTrueIffAddedWitness ==
  /\ last.op = "addMultiple" /\ last.ret = "false" /\ last.calls = <<>>
  /\ commandManager_canRedo(Here)
  /\ subscribers # <<>>

\* The persistence collaborator whose calls always succeed.
Serving == [served |-> Urls, clearServed |-> TRUE]

\* C21 (SpecRemote): with a remote service whose calls always succeed, after
\* clearAll() followed by undo() on a non-empty store the remote table holds
\* every id the store held before the clearAll and the store holds them again.
ClearAllUndoRestoresRemote ==
  favorites # {} =>
    LET c == clearAll(State(last.db), Serving)
        u == undo(c.st, Serving)
    IN /\ c.ret = "true" /\ u.ret = "true"
       /\ u.st.favorites = favorites
       /\ favorites \subseteq u.st.db

\* ---------------------------------------------- overlapping CommandManager calls
\* SpecCMRace: one CommandManager whose asynchronous calls may overlap. A call
\* runs up to its await (begin), stays in flight while the command's
\* execute()/undo() is pending, and runs to its end when that settles
\* (resume); the statements between two awaits run without interruption.
\* last.inflight counts the calls in flight, last.overlap says which calls
\* have overlapped since construction: "none", "exec" (executeAction calls
\* only) or "mixed".

\* Array.prototype.splice(start): a negative start counts from the end.
spliceFrom(h, start) ==
  LET from == IF start < 0
              THEN (IF Len(h) + start < 0 THEN 0 ELSE Len(h) + start)
              ELSE (IF start > Len(h) THEN Len(h) ELSE start)
  IN SubSeq(h, 1, from)

\* actionHistory[i] is undefined outside 0 .. length - 1.
isDefinedAt(h, i) == 0 <= i /\ i <= Len(h) - 1

\* executeAction up to `await action.execute()`.
commandManager_executeAction_begin(st, action) ==
  IF ~hasExecute(action) THEN [st |-> st, done |-> TRUE, ret |-> "throw"]
  ELSE [st |-> st, done |-> FALSE, ret |-> "pending"]

\* Variant: an executeAction that appends after the await without removing
\* what lies beyond the cursor.
commandManager_executeAction_resume_keepsBranch(st, action, result) ==
  IF result = "throw" THEN [st |-> st, ret |-> "throw"]
  ELSE IF result # "false"
  THEN [st |-> [st EXCEPT !.actionHistory = Append(@, action),
                          !.currentHistoryIndex = @ + 1],
        ret |-> "true"]
  ELSE [st |-> st, ret |-> "false"]

\* Variant: an executeAction that moves the cursor after the await whether or
\* not the command was recorded.
commandManager_executeAction_resume_alwaysMoves(st, action, result) ==
  LET h == st.actionHistory
      i == st.currentHistoryIndex
      spliced == IF i < Len(h) - 1 THEN spliceFrom(h, i + 1) ELSE h
  IN IF result = "throw" THEN [st |-> st, ret |-> "throw"]
     ELSE IF result # "false"
     THEN [st |-> [st EXCEPT !.actionHistory = Append(spliced, action),
                             !.currentHistoryIndex = i + 1],
           ret |-> "true"]
     ELSE [st |-> [st EXCEPT !.currentHistoryIndex = i + 1], ret |-> "false"]

\* executeAction from the point where execute() has settled with result.
commandManager_executeAction_resume(st, action, result) ==
  LET h == st.actionHistory
      i == st.currentHistoryIndex
      spliced == IF i < Len(h) - 1 THEN spliceFrom(h, i + 1) ELSE h
  IN IF result = "throw" THEN [st |-> st, ret |-> "throw"]
     ELSE IF result # "false"
     THEN [st |-> [st EXCEPT !.actionHistory = Append(spliced, action),
                             !.currentHistoryIndex = i + 1],
           ret |-> "true"]
     ELSE [st |-> st, ret |-> "false"]

\* undo up to `await action.undo()`; reading a method of undefined throws a
\* TypeError inside the try block.
commandManager_undo_begin(st) ==
  LET h == st.actionHistory
      i == st.currentHistoryIndex
  IN IF i < 0 THEN [st |-> st, done |-> TRUE, ret |-> "false"]
     ELSE IF ~isDefinedAt(h, i) THEN [st |-> st, done |-> TRUE, ret |-> "false"]
     ELSE IF ~hasUndo(h[i + 1]) THEN [st |-> st, done |-> TRUE, ret |-> "false"]
     ELSE [st |-> st, done |-> FALSE, ret |-> "pending"]

\* undo from the point where action.undo() has settled with result.
commandManager_undo_resume(st, result) ==
  IF result = "throw" THEN [st |-> st, ret |-> "false"]
  ELSE [st |-> [st EXCEPT !.currentHistoryIndex = @ - 1], ret |-> "true"]

\* redo up to `await action.execute()`: the cursor has moved already.
commandManager_redo_begin(st) ==
  LET h == st.actionHistory
      i == st.currentHistoryIndex
  IN IF i >= Len(h) - 1 THEN [st |-> st, done |-> TRUE, ret |-> "false"]
     ELSE IF ~isDefinedAt(h, i + 1) \/ ~hasExecute(h[i + 2])
     THEN [st |-> st, done |-> TRUE, ret |-> "false"]
     ELSE [st |-> [st EXCEPT !.currentHistoryIndex = i + 1],
           done |-> FALSE, ret |-> "pending"]

\* redo from the point where action.execute() has settled with result.
commandManager_redo_resume(st, result) ==
  IF result = "throw"
  THEN [st |-> [st EXCEPT !.currentHistoryIndex = @ - 1], ret |-> "false"]
  ELSE [st |-> st, ret |-> "true"]

NoCommand == [type |-> "CUSTOM", name |-> "", hasExecute |-> FALSE,
              hasUndo |-> FALSE]

\* Caller-made commands of SpecCMRace: A supports undo, B does not, and either
\* may come without an execute method.
RaceCommands == {c \in CustomCommands : c.hasUndo <=> c.name = "A"}

\* The calls that can be in flight: executeAction with its command, undo, redo.
PendingCalls ==
  [op : {"executeAction"}, action : {c \in RaceCommands : c.hasExecute}]
    \cup [op : {"undo", "redo"}, action : {NoCommand}]

InFlight(fl) == {c \in PendingCalls : fl[c] > 0}

RECURSIVE SumOver(_, _)
SumOver(fl, cs) ==
  IF cs = {} THEN 0
  ELSE LET c == CHOOSE x \in cs : TRUE IN fl[c] + SumOver(fl, cs \ {c})

NumInFlight(fl) == SumOver(fl, PendingCalls)

\* The overlap after a call of kind op has started with fl in flight.
overlapAfter(overlap, fl, op) ==
  IF InFlight(fl) = {} THEN overlap
  ELSE IF op = "executeAction" /\ overlap # "mixed"
          /\ \A c \in InFlight(fl) : c.op = "executeAction"
  THEN "exec"
  ELSE "mixed"

CompletedCMRace(st, op, ret, action, fl, overlap) ==
  /\ Len(st.actionHistory) <= MaxRaceHistory
  /\ NumInFlight(fl) <= MaxCalls
  /\ favorites' = st.favorites
  /\ actionHistory' = st.actionHistory
  /\ currentHistoryIndex' = st.currentHistoryIndex
  /\ subscribers' = st.subscribers
  /\ last' = [op |-> op, ret |-> ret, action |-> action, inflight |-> fl,
              overlap |-> overlap]

InitCMRace ==
  /\ favorites = {}
  /\ actionHistory = <<>>
  /\ currentHistoryIndex = -1
  /\ subscribers = <<>>
  /\ last = [op |-> "create", ret |-> "object", action |-> NoCommand,
             inflight |-> [c \in PendingCalls |-> 0], overlap |-> "none"]

BeginExecuteAction ==
  \E action \in RaceCommands :
    LET b == commandManager_executeAction_begin(State({}), action)
        call == [op |-> "executeAction", action |-> action]
    IN CompletedCMRace(b.st, "executeAction:begin", b.ret, action,
         IF b.done THEN last.inflight
         ELSE [last.inflight EXCEPT ![call] = @ + 1],
         overlapAfter(last.overlap, last.inflight, "executeAction"))

ResumeExecuteAction ==
  \E call \in InFlight(last.inflight), result \in Outcomes :
    /\ call.op = "executeAction"
    /\ LET r == commandManager_executeAction_resume(State({}), call.action, result)
       IN CompletedCMRace(r.st, "executeAction", r.ret, call.action,
            [last.inflight EXCEPT ![call] = @ - 1], last.overlap)

BeginUndo ==
  LET b == commandManager_undo_begin(State({}))
      call == [op |-> "undo", action |-> NoCommand]
  IN CompletedCMRace(b.st, "undo:begin", b.ret, NoCommand,
       IF b.done THEN last.inflight ELSE [last.inflight EXCEPT ![call] = @ + 1],
       overlapAfter(last.overlap, last.inflight, "undo"))

ResumeUndo ==
  \E result \in Outcomes :
    LET call == [op |-> "undo", action |-> NoCommand]
        r == commandManager_undo_resume(State({}), result)
    IN /\ last.inflight[call] > 0
       /\ CompletedCMRace(r.st, "undo", r.ret, NoCommand,
            [last.inflight EXCEPT ![call] = @ - 1], last.overlap)

BeginRedo ==
  LET b == commandManager_redo_begin(State({}))
      call == [op |-> "redo", action |-> NoCommand]
  IN CompletedCMRace(b.st, "redo:begin", b.ret, NoCommand,
       IF b.done THEN last.inflight ELSE [last.inflight EXCEPT ![call] = @ + 1],
       overlapAfter(last.overlap, last.inflight, "redo"))

ResumeRedo ==
  \E result \in Outcomes :
    LET call == [op |-> "redo", action |-> NoCommand]
        r == commandManager_redo_resume(State({}), result)
    IN /\ last.inflight[call] > 0
       /\ CompletedCMRace(r.st, "redo", r.ret, NoCommand,
            [last.inflight EXCEPT ![call] = @ - 1], last.overlap)

ClearHistoryCMRace ==
  \E keepCurrent \in BOOLEAN :
    CompletedCMRace(commandManager_clearHistory(State({}), keepCurrent),
                    "clearHistory", "undefined", NoCommand, last.inflight,
                    overlapAfter(last.overlap, last.inflight, "clearHistory"))

NextCMRace ==
  \/ BeginExecuteAction
  \/ ResumeExecuteAction
  \/ BeginUndo
  \/ ResumeUndo
  \/ BeginRedo
  \/ ResumeRedo
  \/ ClearHistoryCMRace

SpecCMRace == InitCMRace /\ [][NextCMRace]_vars

\* The cursor is corrupted: it is out of bounds or, right after an
\* executeAction that recorded its command, it does not designate it.
Corrupted ==
  \/ currentHistoryIndex < -1
  \/ currentHistoryIndex > Len(actionHistory) - 1
  \/ /\ last.op = "executeAction" /\ last.ret = "true"
     /\ \/ currentHistoryIndex # Len(actionHistory) - 1
        \/ actionHistory[currentHistoryIndex + 1] # last.action

\* Overlapping executeAction calls have all finished and no other kind of
\* call ever overlapped another call.
ExecuteActionsOverlapped ==
  /\ last.overlap = "exec"
  /\ last.op = "executeAction"
  /\ NumInFlight(last.inflight) = 0

OverlapCursorInBounds == currentHistoryIndex \in -1 .. Len(actionHistory) - 1

\* C24, amended (SpecCMRace): under every interleaving the cursor is at most
\* history length - 1; it is at least -1 in every state reached without an
\* undo, redo or clearHistory overlapping another call.
OverlapCursorUpperBound ==
  /\ currentHistoryIndex <= Len(actionHistory) - 1
  /\ last.overlap # "mixed" => -1 <= currentHistoryIndex

\* C24 witness: an undo that overlapped another call has finished and left
\* the cursor below -1 and below the history length.
OverlapCursorUpperBoundWitness ==
  /\ last.op = "undo" /\ last.ret = "true"
  /\ last.overlap = "mixed"
  /\ currentHistoryIndex < -1

\* --------------------------------------------------- overlapping facade calls
\* SpecRace: one facade whose addFavorite, removeFavorite and clearAll calls
\* may overlap. A call runs up to the remote call its command awaits (begin),
\* changes the store when that call settles (settle), is recorded when the
\* CommandManager continues (record), and notifies and returns when the
\* facade continues (finish). last.inflight is the bag of calls in
\* flight, each with its command, its position and the value it carries;
\* a clearAll in flight is alone as long as no other call was in flight with
\* it since it started. last.cmd, last.removed and last.alone are the command
\* and the ids removed by the clear() that has just run, and whether its
\* call was alone until then.

\* Variant: an execute() that does not take the snapshot before it awaits.
ClearAll_execute_begin_noCapture(st, cmd) == cmd

\* ClearAll.execute up to `await dbClearAllFavorites()`.
ClearAll_execute_begin(st, cmd) ==
  [cmd EXCEPT !.previousState = stateStore_getAll(st.favorites)]

\* ClearAll.execute from the point where the remote call has settled.
ClearAll_execute_settle(st, cmd, env) ==
  LET r == dbClearAllFavorites(st.db, env)
      c == stateStore_clear(st.favorites)
      after == [st EXCEPT !.db = r.db, !.favorites = c.favorites]
  IN CASE r.res = "true"   -> [st |-> after, cmd |-> cmd, result |-> "object"]
       [] r.res = "false"  -> [st |-> after, cmd |-> cmd, result |-> "object"]
       [] r.res = "reject" -> [st |-> after, cmd |-> cmd, result |-> "object"]

\* No command: the command slot of a call that no longer needs its command.
NoAction ==
  [type |-> "NONE", url |-> "", urls |-> <<>>, addedUrls |-> <<>>,
   previousState |-> NoObject]

SettledFlight(fl, call, pc, result) ==
  (fl (-) SetToBag({call}))
    (+) SetToBag({[call EXCEPT !.pc = pc, !.result = result,
                               !.alone = FALSE]})

\* The calls in flight once another call has started or is there already.
Accompanied(fl) == BagOfAll(LAMBDA call : [call EXCEPT !.alone = FALSE], fl)

\* The calls in flight after call has started.
Started(fl, call) ==
  Accompanied(fl)
    (+) SetToBag({[call EXCEPT !.alone = call.op = "clearAll" /\ fl = EmptyBag]})

CompletedRace(st, op, ret, calls, fl, cmd, removed, alone) ==
  /\ Len(st.actionHistory) <= MaxRaceHistory
  /\ BagCardinality(fl) <= MaxCalls
  /\ favorites' = st.favorites
  /\ actionHistory' = st.actionHistory
  /\ currentHistoryIndex' = st.currentHistoryIndex
  /\ subscribers' = st.subscribers
  /\ last' = [op |-> op, ret |-> ret, calls |-> calls, inflight |-> fl,
              cmd |-> cmd, removed |-> removed, alone |-> alone]

InitRace ==
  /\ favorites = {}
  /\ actionHistory = <<>>
  /\ currentHistoryIndex = -1
  /\ subscribers = <<>>
  /\ last = [op |-> "create", ret |-> "object", calls |-> <<>>,
             inflight |-> EmptyBag,
             cmd |-> NoAction, removed |-> {}, alone |-> FALSE]

Quiet(st, op, ret, fl) ==
  CompletedRace(st, op, ret, <<>>, fl, NoAction, {}, FALSE)

BeginAddFavorite ==
  \E url \in Urls :
    IF stateStore_has(favorites, url)
    THEN Quiet(Here, "addFavorite", "false", last.inflight)
    ELSE Quiet(Here, "addFavorite:begin", "pending",
           Started(last.inflight, [op |-> "addFavorite",
                                   cmd |-> createAddFavoriteAction(url),
                                   pc |-> "remote", result |-> "pending",
                                   alone |-> FALSE]))

BeginClearAll ==
  IF stateStore_isEmpty(favorites)
  THEN Quiet(Here, "clearAll", "false", last.inflight)
  ELSE Quiet(Here, "clearAll:begin", "pending",
         Started(last.inflight, [op |-> "clearAll",
                                 cmd |-> ClearAll_execute_begin(
                                           Here, createClearAllAction),
                                 pc |-> "remote", result |-> "pending",
                                 alone |-> FALSE]))

BeginRemoveFavorite ==
  \E url \in Urls :
    IF ~stateStore_has(favorites, url)
    THEN Quiet(Here, "removeFavorite", "false", last.inflight)
    ELSE Quiet(Here, "removeFavorite:begin", "pending",
           Started(last.inflight, [op |-> "removeFavorite",
                                   cmd |-> createRemoveFavoriteAction(url),
                                   pc |-> "remote", result |-> "pending",
                                   alone |-> FALSE]))

\* The remote call of a call in flight settles and the command goes on.
Settle ==
  \E call \in BagToSet(last.inflight), env \in Env :
    /\ call.pc = "remote"
    /\ CASE call.op = "addFavorite" ->
              LET e == AddFavorite_execute(Here, call.cmd, env)
              IN Quiet(e.st, "addFavorite:settle", e.result,
                       SettledFlight(last.inflight, call, "command", e.result))
         [] call.op = "clearAll" ->
              LET e == ClearAll_execute_settle(Here, call.cmd, env)
              IN CompletedRace(e.st, "clearAll:settle", e.result, <<>>,
                   SettledFlight(last.inflight, call, "command", e.result),
                   call.cmd, favorites, call.alone)
         [] call.op = "removeFavorite" ->
              LET e == RemoveFavorite_execute(Here, call.cmd, env)
              IN Quiet(e.st, "removeFavorite:settle", e.result,
                       SettledFlight(last.inflight, call, "command", e.result))

\* The CommandManager goes on after its await.
Record ==
  \E call \in BagToSet(last.inflight) :
    /\ call.pc = "command"
    /\ LET r == commandManager_executeAction_resume(Here, call.cmd, call.result)
           done == [call EXCEPT !.cmd = NoAction]
       IN Quiet(r.st, "executeAction:record", r.ret,
                (last.inflight (-) SetToBag({call}))
                  (+) SetToBag({[done EXCEPT !.pc = "manager",
                                             !.result = r.ret]}))

\* The facade goes on after its await: it notifies when the CommandManager
\* returned true, and returns.
Finish ==
  \E call \in BagToSet(last.inflight) :
    /\ call.pc = "manager"
    /\ LET r == IF call.result = "true" THEN notifyThenReturn(Here, "true")
                ELSE [st |-> Here, ret |-> call.result, calls |-> <<>>]
       IN CompletedRace(r.st, call.op, r.ret, r.calls,
                        last.inflight (-) SetToBag({call}),
                        NoAction, {}, FALSE)

NextRace ==
  \/ BeginAddFavorite
  \/ BeginClearAll
  \/ BeginRemoveFavorite
  \/ Settle
  \/ Record
  \/ Finish

SpecRace == InitRace /\ [][NextRace]_vars

\* C22, as stated (SpecRace): under every interleaving, the snapshot a
\* ClearAll command restores on undo is the set of ids its execute removed
\* from the store.
ClearAllSnapshotIsRemoved ==
  last.op = "clearAll:settle" => last.cmd.previousState.elems = last.removed

\* C22, amended (SpecRace): the snapshot a ClearAll command restores on undo
\* is the set of ids its execute removed whenever no other call was in flight
\* between the start of the clearAll and the emptying of the store.
ClearAllSnapshotIsRemovedWhenAlone ==
  last.op = "clearAll:settle" /\ last.alone =>
    last.cmd.previousState.elems = last.removed

\* C22 witness: a clearAll with no other call in flight since it started has
\* emptied a store of two ids and holds both in its snapshot.
ClearAllSnapshotIsRemovedWhenAloneWitness ==
  /\ last.op = "clearAll:settle" /\ last.alone
  /\ last.removed = Urls
  /\ last.cmd.previousState.elems = Urls

\* What a recorded command does to a set of favorites when it is executed.
Effect(f, cmd) ==
  CASE cmd.type = "ADD_FAVORITE"    -> f \cup {cmd.url}
    [] cmd.type = "REMOVE_FAVORITE" -> f \ {cmd.url}
    [] cmd.type = "CLEAR_ALL"       -> {}
    [] cmd.type = "BULK_ADD"        -> f \cup SetOf(cmd.urls)

\* The effects of the commands h[1], ..., h[n] applied in order to f.
RECURSIVE Replay(_, _, _)
Replay(h, n, f) ==
  IF n = 0 THEN f ELSE Effect(Replay(h, n - 1, f), h[n])

\* C25 (SpecRemote): after any sequence of addFavorite, removeFavorite,
\* clearAll, addMultiple, undo and redo calls run one at a time from an
\* empty store, with any remote outcomes, the favorites set is the result of
\* applying the commands history[0..currentIndex] in order to the empty set.
HistoryStateConsistent ==
  favorites = Replay(actionHistory, currentHistoryIndex + 1, {})

\* C25 witness: an undo has left a command after the cursor and a non-empty
\* prefix whose replay gives a non-empty favorites set.
HistoryStateConsistentWitness ==
  /\ last.op = "undo" /\ last.ret = "true"
  /\ currentHistoryIndex = 0 /\ Len(actionHistory) = 2
  /\ actionHistory[2].type = "CLEAR_ALL"
  /\ favorites # {}

\* A CommandManager whose only recorded command is cmd, with a subscriber.
Holding(cmd) ==
  [Watched EXCEPT !.actionHistory = <<cmd>>, !.currentHistoryIndex = 0]

\* C26 (SpecCM): undo() decrements the cursor and returns true whenever the
\* command's undo() completes without throwing, whatever it returned (false
\* included, as a BulkAdd with an empty tracked list and a ClearAll with no
\* captured state return), and redo() keeps the advanced cursor and returns
\* true whenever execute() completes without throwing; the history is as
\* before and the facade notifies its subscriber once.
UndoRedoSucceedUnlessThrown ==
  /\ \A outcome \in Outcomes \ {"throw"} :
       /\ commandManager_canUndo(Here) /\ hasUndo(AtCursor(Here)) =>
            LET u == undo(Watched, [outcome |-> outcome])
            IN /\ u.ret = "true"
               /\ u.st.currentHistoryIndex = currentHistoryIndex - 1
               /\ u.st.actionHistory = actionHistory
               /\ NotifiedOf(u.calls) = <<"ok">>
       /\ commandManager_canRedo(Here) =>
            LET r == redo(Watched, [outcome |-> outcome])
            IN /\ r.ret = "true"
               /\ r.st.currentHistoryIndex = currentHistoryIndex + 1
               /\ r.st.actionHistory = actionHistory
               /\ NotifiedOf(r.calls) = <<"ok">>
  /\ \A env \in Env, cmd \in {createClearAllAction}
                              \cup {createBulkAddAction(urls) : urls \in Batches} :
       LET u == undo(Holding(cmd), env)
       IN /\ action_undo(Holding(cmd), cmd, env).result = "false"
          /\ u.ret = "true"
          /\ u.st.currentHistoryIndex = -1
          /\ Len(u.calls) = 1

\* C26 witness: an undo has returned true and moved the cursor back by one
\* with the history as it was, which is where every outcome of the command's
\* undo() other than a throw leads, false included.
UndoRedoSucceedUnlessThrownWitness ==
  /\ last.op = "undo" /\ last.ret = "true"
  /\ currentHistoryIndex = last.before.currentIndex - 1
  /\ Len(actionHistory) = last.before.totalActions

\* C27 (Spec): clearHistory(true) removes exactly the commands after the
\* cursor and keeps history[0..cursor] and the cursor, so canRedo() becomes
\* false and canUndo() is unchanged; clearHistory(false) empties the history
\* and sets the cursor to -1; both leave the favorites set and the subscriber
\* list unchanged and invoke no subscriber.
ClearHistoryOnlyHistory ==
  LET kept == clearHistory(Here, TRUE)
      emptied == clearHistory(Here, FALSE)
  IN /\ kept.st.actionHistory = SubSeq(actionHistory, 1, currentHistoryIndex + 1)
     /\ kept.st.currentHistoryIndex = currentHistoryIndex
     /\ ~commandManager_canRedo(kept.st)
     /\ commandManager_canUndo(kept.st) = commandManager_canUndo(Here)
     /\ emptied.st.actionHistory = <<>>
     /\ emptied.st.currentHistoryIndex = -1
     /\ ~commandManager_canRedo(emptied.st) /\ ~commandManager_canUndo(emptied.st)
     /\ \A r \in {kept, emptied} :
          /\ r.st.favorites = favorites
          /\ r.st.subscribers = subscribers
          /\ r.calls = <<>>

\* C27 witness: a clearHistory has left a non-empty history (it kept the
\* commands up to the cursor) on a store with favorites and a subscriber.
ClearHistoryOnlyHistoryWitness ==
  /\ last.op = "clearHistory" /\ last.calls = <<>>
  /\ actionHistory # <<>> /\ currentHistoryIndex = Len(actionHistory) - 1
  /\ favorites # {} /\ subscribers # <<>>

\* --------------------------------------------------------------- SpecPass
\* The ObserverManager driven directly, with callbacks that subscribe and
\* unsubscribe during a notification pass. last.before is the subscribers
\* array when the call started.
CompletedPass(st, op, calls) ==
  /\ Len(st.subscribers) <= MaxPassSubscribers
  /\ subscribers' = st.subscribers
  /\ last' = [op |-> op, calls |-> calls, before |-> subscribers]
  /\ UNCHANGED <<favorites, actionHistory, currentHistoryIndex>>

InitPass ==
  /\ favorites = {}
  /\ actionHistory = <<>>
  /\ currentHistoryIndex = -1
  /\ subscribers = <<>>
  /\ last = [op |-> "init", calls |-> <<>>, before |-> <<>>]

SubscribePass ==
  \E callback \in PassCallbacks :
    CompletedPass(observerManager_subscribe(Here, callback, NoObject).st,
                  "subscribe", <<>>)

UnsubscribePass ==
  \E callback \in PassCallbacks :
    CompletedPass(observerManager_unsubscribe(Here, callback).st,
                  "unsubscribe", <<>>)

NotifyAllPass ==
  \E elems \in SUBSET Urls :
    LET n == observerManager_notifyAll(Here, [ref |-> "copy", elems |-> elems])
    IN CompletedPass(n.st, "notifyAll", n.calls)

NextPass ==
  \/ SubscribePass
  \/ UnsubscribePass
  \/ NotifyAllPass

SpecPass == InitPass /\ [][NextPass]_vars

\* C28 (SpecPass): a notification pass invokes exactly the callbacks that were
\* registered when it started, in registration order: a callback subscribed
\* during the pass is not invoked in it, and one unsubscribed during the pass
\* still is. The subscriptions and unsubscriptions made during the pass are in
\* the subscribers array afterwards, and the next pass invokes that array.
Fewer(n, m) == IF n < m THEN n ELSE m

NotifyAllOverSnapshot ==
  last.op = "notifyAll" =>
    LET next == observerManager_notifyAll(Here, NoObject)
    IN /\ NotifiedOf(last.calls) = last.before
       /\ Count(subscribers, "late") =
            Count(last.before, "late") + Count(last.before, "adder")
       /\ Count(subscribers, "ok") =
            Count(last.before, "ok")
              - Fewer(Count(last.before, "ok"), Count(last.before, "remover"))
       /\ \A callback \in {"adder", "remover"} :
            Count(subscribers, callback) = Count(last.before, callback)
       /\ NotifiedOf(next.calls) = subscribers

\* A pass over remover, ok, adder invoked ok although remover had unsubscribed
\* it, did not invoke the late callback adder subscribed, and left both
\* changes in the array.
NotifyAllOverSnapshotWitness ==
  /\ last.op = "notifyAll"
  /\ last.before = <<"remover", "ok", "adder">>
  /\ NotifiedOf(last.calls) = <<"remover", "ok", "adder">>
  /\ subscribers = <<"remover", "adder", "late">>

\* -------------------------------------------------------------- SpecInput
\* The facade, and the state store behind it, called with any value: the
\* strings and arrays of the other specifications, and empty strings, values
\* that are not strings, not arrays, not Sets and not functions. last.input
\* tells whether the argument of the call was one the validation rejects.
InvalidIds == {""} \cup NotStrings
InvalidBatches == NotArrays \cup {<<>>, <<"", "<42>">>}
MixedBatches == Batches \cup {<<"m2", "", "<42>">>}
NotSets == {NoObject, AnArray}

Kind(invalid) == IF invalid THEN "invalid" ELSE "valid"

CompletedInput(r, op, invalid) ==
  /\ Len(r.st.actionHistory) <= MaxInputHistory
  /\ Len(r.st.subscribers) <= MaxSubscribers
  /\ favorites' = r.st.favorites
  /\ actionHistory' = r.st.actionHistory
  /\ currentHistoryIndex' = r.st.currentHistoryIndex
  /\ subscribers' = r.st.subscribers
  /\ last' = [op |-> op, ret |-> r.ret, calls |-> r.calls,
              input |-> Kind(invalid)]

CompletedStoreCall(f, op, threw, invalid) ==
  /\ favorites' = f
  /\ last' = [op |-> op, ret |-> IF threw THEN "throw" ELSE "returned",
              calls |-> <<>>, input |-> Kind(invalid)]
  /\ UNCHANGED <<actionHistory, currentHistoryIndex, subscribers>>

InitInput ==
  /\ favorites = {}
  /\ actionHistory = <<>>
  /\ currentHistoryIndex = -1
  /\ subscribers = <<>>
  /\ last = [op |-> "create", ret |-> "object", calls |-> <<>>,
             input |-> "valid"]

AddFavoriteAny ==
  \E url \in Urls \cup InvalidIds, rm \in Remotes :
    CompletedInput(addFavorite(State(rm[1]), url, rm[2]), "addFavorite",
                   url \in InvalidIds)

RemoveFavoriteAny ==
  \E url \in Urls \cup InvalidIds, rm \in Remotes :
    CompletedInput(removeFavorite(State(rm[1]), url, rm[2]), "removeFavorite",
                   url \in InvalidIds)

AddMultipleAny ==
  \E urls \in MixedBatches \cup InvalidBatches, rm \in Remotes :
    CompletedInput(addMultiple(State(rm[1]), urls, rm[2]), "addMultiple",
                   urls \in InvalidBatches)

SubscribeAny ==
  \E callback \in WellBehaved \cup NotFunctions :
    CompletedInput(subscribe(Here, callback), "subscribe",
                   callback \in NotFunctions)

StoreAddAny ==
  \E url \in Urls \cup InvalidIds :
    LET a == stateStore_add(favorites, url)
    IN CompletedStoreCall(a.favorites, "store.add", a.threw, url \in InvalidIds)

StoreRemoveAny ==
  \E url \in Urls \cup InvalidIds :
    LET a == stateStore_remove(favorites, url)
    IN CompletedStoreCall(a.favorites, "store.remove", a.threw,
                          url \in InvalidIds)

StoreRestoreAny ==
  \E snapshot \in NotSets \cup {[ref |-> "copy", elems |-> S] : S \in SUBSET Urls} :
    LET r == stateStore_restore(favorites, snapshot)
    IN CompletedStoreCall(r.favorites, "store.restore", r.threw,
                          snapshot \in NotSets)

NextInput ==
  \/ AddFavoriteAny
  \/ RemoveFavoriteAny
  \/ AddMultipleAny
  \/ SubscribeAny
  \/ StoreAddAny
  \/ StoreRemoveAny
  \/ StoreRestoreAny

SpecInput == InitInput /\ [][NextInput]_vars

\* What a rejected facade call leaves behind: the state as it was, the given
\* outcome, no subscriber invoked.
Rejected(r, st, ret) ==
  /\ r.st = st
  /\ r.ret = ret
  /\ r.calls = <<>>

\* The calls the claim lists other than removeFavorite: each fails with an
\* error and changes nothing.
InvalidInputThrows ==
  /\ \A rm \in Remotes :
       /\ \A url \in InvalidIds :
            Rejected(addFavorite(State(rm[1]), url, rm[2]), State(rm[1]), "throw")
       /\ \A urls \in InvalidBatches :
            Rejected(addMultiple(State(rm[1]), urls, rm[2]), State(rm[1]), "throw")
  /\ \A url \in InvalidIds :
       /\ stateStore_add(favorites, url) =
            [favorites |-> favorites, ret |-> FALSE, threw |-> TRUE]
       /\ stateStore_remove(favorites, url) =
            [favorites |-> favorites, ret |-> FALSE, threw |-> TRUE]
  /\ \A snapshot \in NotSets :
       stateStore_restore(favorites, snapshot) =
         [favorites |-> favorites, threw |-> TRUE]
  /\ \A callback \in NotFunctions :
       /\ observerManager_subscribe(Here, callback, stateStore_getAll(favorites)) =
            [st |-> Here, calls |-> <<>>, threw |-> TRUE]
       /\ Rejected(subscribe(Here, callback), Here, "throw")

\* C29 as claimed: every listed call with invalid input, removeFavorite
\* included, fails with an error and leaves the favorites, the history, the
\* cursor and the subscribers as they were, invoking no subscriber.
InvalidInputFailsWithError ==
  /\ InvalidInputThrows
  /\ \A rm \in Remotes, url \in InvalidIds :
       Rejected(removeFavorite(State(rm[1]), url, rm[2]), State(rm[1]), "throw")

\* C29 (SpecInput), amended: addFavorite with an empty or non-string id,
\* addMultiple with a non-array, an empty array or an array with no non-empty
\* string, StateStore.add/remove with an empty or non-string id,
\* StateStore.restore with a non-Set and subscribe with a non-function each
\* fail with an error, and removeFavorite with an empty or non-string id
\* returns false without an error; in every one of these cases the favorites,
\* the history, the cursor and the subscribers are unchanged and no subscriber
\* is invoked.
InvalidInputLeavesStateAlone ==
  /\ InvalidInputThrows
  /\ \A rm \in Remotes, url \in InvalidIds :
       Rejected(removeFavorite(State(rm[1]), url, rm[2]), State(rm[1]), "false")

\* C29 witness: addFavorite was called with an invalid id on a store that had
\* favorites, a recorded command and a subscriber, and it failed.
InvalidInputLeavesStateAloneWitness ==
  /\ last.op = "addFavorite"
  /\ last.input = "invalid"
  /\ last.ret = "throw"
  /\ favorites # {}
  /\ actionHistory # <<>>
  /\ subscribers # <<>>

\* C30 (SpecObs): in a notification pass every subscriber receives a snapshot
\* whose membership is the favorites set at notification time, whatever the
\* subscribers invoked before it did to the snapshot they were given.
EachSubscriberSeesTrueState ==
  LET pass == observerManager_notifyAll(Here, stateStore_getAll(favorites))
  IN \A k \in 1..Len(pass.calls) : pass.calls[k].received = favorites

====
